---- MODULE Spec2Model ----
(***************************************************************************)
(* Model of the interview-analysis backend: the analysis orchestrator      *)
(* (services/ai-service.js, services/deepseek-enhanced.js) and the         *)
(* response normalizer (services/response-parser.js and the                *)
(* ResponseValidator class).                                               *)
(*                                                                         *)
(* JavaScript values are tagged records.  Numbers are kept in hundredths   *)
(* so that 0.85 and 7.5 are representable with integers: Num(70) is 0.7    *)
(* and Num(700) is 7.  A raw reply text is a sequence of lexical tokens.   *)
(***************************************************************************)
EXTENDS Integers, Sequences, FiniteSets, TLC

(***************************************************************************)
(* JavaScript values                                                       *)
(***************************************************************************)
Undef == [t |-> "undef"]
Null == [t |-> "null"]
Throw == [t |-> "throw"]
Bool(b) == [t |-> "bool", b |-> b]
Num(n) == [t |-> "num", n |-> n]
Str(s) == [t |-> "str", s |-> s]
Arr(q) == [t |-> "arr", a |-> q]
Obj(f) == [t |-> "obj", o |-> f]

\* a whole number n in hundredths
Whole(n) == n * 100

Min2(a, b) == IF a < b THEN a ELSE b
Max2(a, b) == IF a > b THEN a ELSE b

\* ToBoolean: undefined, null, false, 0 and "" are falsy.
Truthy(v) ==
    CASE v.t \in {"undef", "null"} -> FALSE
      [] v.t = "bool" -> v.b
      [] v.t = "num" -> v.n # 0
      [] v.t = "str" -> v.s # ""
      [] OTHER -> TRUE

\* a || d
OrElse(a, d) == IF Truthy(a) THEN a ELSE d

\* v.k : a TypeError on undefined and null, undefined when the key is absent.
Get(v, k) ==
    CASE v.t \in {"undef", "null"} -> Throw
      [] v.t = "obj" -> IF k \in DOMAIN v.o THEN v.o[k] ELSE Undef
      [] OTHER -> Undef

\* v?.k
OptGet(v, k) == IF v.t \in {"undef", "null"} THEN Undef ELSE Get(v, k)

IsArray(v) == v.t = "arr"

\* [..].includes(v) for a list of string literals (strict equality).
Includes(set, v) == v.t = "str" /\ v.s \in set

\* variant: arr.slice(1, n)
Slice_FromOne(v, n) == SubSeq(v.a, 2, Min2(n, Len(v.a)))

\* arr.slice(0, n)
Slice(v, n) == SubSeq(v.a, 1, Min2(n, Len(v.a)))

\* Array.isArray(x) ? x.slice(0, n) : d
SliceOr(v, n, d) == IF IsArray(v) THEN Arr(Slice(v, n)) ELSE d

(***************************************************************************)
(* Reply texts as token sequences                                          *)
(***************************************************************************)
P(s) == [k |-> "p", s |-> s]
TStr(s) == [k |-> "str", s |-> s]
TNum(n) == [k |-> "num", n |-> n]
TLit(s) == [k |-> "lit", s |-> s]
TTxt(s) == [k |-> "txt", s |-> s]
TWs == [k |-> "ws"]
TFence == [k |-> "fence"]
TJsonTag == TTxt("json")
\* A string literal whose characters include other tokens (braces, back-ticks)
\* is written as an opening part, those tokens, and a closing part.
TStrOpen(s) == [k |-> "strOpen", s |-> s]
TStrClose == [k |-> "strClose"]

\* the token holds a double-quote character
HasQuote(tk) == tk.k \in {"str", "strOpen", "strClose"}

\* The position after the string literal opened at i: the literal ends at the
\* next double quote, which must be that of a closing part.
StringEnd(text, i) ==
    LET quotes == {j \in (i + 1)..Len(text) : HasQuote(text[j])}
        first == CHOOSE j \in quotes : \A m \in quotes : j <= m
    IN IF quotes = {} THEN 0
       ELSE IF text[first].k = "strClose" THEN first + 1 ELSE 0

IsWs(tk) == tk.k = "ws"

\* String.prototype.trim
Trim(text) ==
    LET keep == {i \in 1..Len(text) : ~IsWs(text[i])}
    IN IF keep = {} THEN <<>>
       ELSE SubSeq(text, CHOOSE i \in keep : \A j \in keep : i <= j,
                         CHOOSE i \in keep : \A j \in keep : i >= j)

RECURSIVE SkipWs(_, _)
\* the first position from i on that holds no white space
SkipWs(text, i) ==
    IF i <= Len(text) /\ IsWs(text[i]) THEN SkipWs(text, i + 1) ELSE i

LitValue(s) ==
    CASE s = "null" -> Null
      [] s = "true" -> Bool(TRUE)
      [] OTHER -> Bool(FALSE)

ParseFail == [ok |-> FALSE]
ParseOk(v, n) == [ok |-> TRUE, val |-> v, next |-> n]

RECURSIVE ParseValue(_, _)
RECURSIVE ParseElems(_, _, _)
RECURSIVE ParseMembers(_, _, _)

\* JSON value at position i0 of text (leading white space skipped).
ParseValue(text, i0) ==
    LET i == SkipWs(text, i0)
    IN IF i > Len(text) THEN ParseFail
       ELSE LET tk == text[i]
            IN CASE tk.k = "lit" -> ParseOk(LitValue(tk.s), i + 1)
                 [] tk.k = "num" -> ParseOk(Num(tk.n), i + 1)
                 [] tk.k = "str" -> ParseOk(Str(tk.s), i + 1)
                 [] tk.k = "strOpen" ->
                      IF StringEnd(text, i) = 0 THEN ParseFail
                      ELSE ParseOk(Str(tk.s), StringEnd(text, i))
                 [] tk = P("[") ->
                      LET j == SkipWs(text, i + 1)
                      IN IF j <= Len(text) /\ text[j] = P("]")
                         THEN ParseOk(Arr(<<>>), j + 1)
                         ELSE ParseElems(text, i + 1, <<>>)
                 [] tk = P("{") ->
                      LET j == SkipWs(text, i + 1)
                      IN IF j <= Len(text) /\ text[j] = P("}")
                         THEN ParseOk(Obj(<<>>), j + 1)
                         ELSE ParseMembers(text, i + 1, <<>>)
                 [] OTHER -> ParseFail

ParseElems(text, i, acc) ==
    LET r == ParseValue(text, i)
    IN IF ~r.ok THEN ParseFail
       ELSE LET j == SkipWs(text, r.next)
            IN IF j > Len(text) THEN ParseFail
               ELSE IF text[j] = P(",") THEN ParseElems(text, j + 1, Append(acc, r.val))
               ELSE IF text[j] = P("]") THEN ParseOk(Arr(Append(acc, r.val)), j + 1)
               ELSE ParseFail

ParseMembers(text, i0, acc) ==
    LET i == SkipWs(text, i0)
    IN IF i > Len(text) \/ text[i].k # "str" THEN ParseFail
       ELSE LET c == SkipWs(text, i + 1)
            IN IF c > Len(text) \/ text[c] # P(":") THEN ParseFail
               ELSE LET r == ParseValue(text, c + 1)
                    IN IF ~r.ok THEN ParseFail
                       ELSE LET j == SkipWs(text, r.next)
                                acc2 == (text[i].s :> r.val) @@ acc
                            IN IF j > Len(text) THEN ParseFail
                               ELSE IF text[j] = P(",") THEN ParseMembers(text, j + 1, acc2)
                               ELSE IF text[j] = P("}") THEN ParseOk(Obj(acc2), j + 1)
                               ELSE ParseFail

\* JSON.parse: the whole text is one JSON value, else a SyntaxError.
JSONparse(text) ==
    LET r == ParseValue(text, 1)
    IN IF r.ok /\ SkipWs(text, r.next) > Len(text) THEN r.val ELSE Throw

\* variant: the lazy match /\{[\s\S]*?\}/, first "{" through the next "}"
MatchBraces_Lazy(text) ==
    LET opens == {i \in 1..Len(text) : text[i] = P("{")}
        first == CHOOSE i \in opens : \A j \in opens : i <= j
        closes == {i \in 1..Len(text) : text[i] = P("}") /\ opens # {} /\ i > first}
        next == CHOOSE i \in closes : \A j \in closes : i <= j
    IN IF opens = {} \/ closes = {} THEN [found |-> FALSE]
       ELSE [found |-> TRUE, text |-> SubSeq(text, first, next)]

\* responseText.match(/\{[\s\S]*\}/): first "{" through last "}".
MatchBraces(text) ==
    LET opens == {i \in 1..Len(text) : text[i] = P("{")}
        first == CHOOSE i \in opens : \A j \in opens : i <= j
        closes == {i \in 1..Len(text) : text[i] = P("}") /\ opens # {} /\ i > first}
        last == CHOOSE i \in closes : \A j \in closes : i >= j
    IN IF opens = {} \/ closes = {} THEN [found |-> FALSE]
       ELSE [found |-> TRUE, text |-> SubSeq(text, first, last)]

(***************************************************************************)
(* Response normalizer: per-field validators                               *)
(* (response-parser.js; the ResponseValidator class has the same bodies)   *)
(***************************************************************************)
\* arr.map(f) where f reads a property of each element: a TypeError when an
\* element is null or undefined.
MapElems(s, F(_)) ==
    IF \E i \in 1..Len(s) : s[i].t \in {"undef", "null"} THEN Throw
    ELSE Arr([i \in 1..Len(s) |-> F(s[i])])

HighlightItem(h) ==
    Obj([text |-> OrElse(Get(h, "text"), Str("Analysis completed")),
         category |-> OrElse(Get(h, "category"), Str("general")),
         confidence |-> IF Get(h, "confidence").t = "num" THEN Get(h, "confidence") ELSE Num(70),
         reasoning |-> OrElse(Get(h, "reasoning"), Str("Identified as positive indicator"))])

\* variant: a missing highlights field is passed through as undefined
validateHighlights_Undefined(highlights) ==
    IF ~IsArray(highlights) THEN Undef
    ELSE MapElems(Slice(highlights, 6), HighlightItem)

validateHighlights(highlights) ==
    IF ~IsArray(highlights) THEN Arr(<<>>)
    ELSE MapElems(Slice(highlights, 6), HighlightItem)

\* variant: the priority is defaulted when falsy but not checked against the list
ImprovementItem_PriorityPassThrough(i) ==
    Obj([text |-> OrElse(Get(i, "text"), Str("Area for development identified")),
         suggestion |-> OrElse(Get(i, "suggestion"), Str("Recommend focused practice")),
         priority |-> OrElse(Get(i, "priority"), Str("medium")),
         category |-> OrElse(Get(i, "category"), Str("general"))])

ImprovementItem(i) ==
    Obj([text |-> OrElse(Get(i, "text"), Str("Area for development identified")),
         suggestion |-> OrElse(Get(i, "suggestion"), Str("Recommend focused practice")),
         priority |-> IF Includes({"high", "medium", "low"}, Get(i, "priority"))
                      THEN Get(i, "priority") ELSE Str("medium"),
         category |-> OrElse(Get(i, "category"), Str("general"))])

validateImprovements(improvements) ==
    IF ~IsArray(improvements) THEN Arr(<<>>)
    ELSE MapElems(Slice(improvements, 4), ImprovementItem)

\* variant: the level is defaulted when falsy but not checked against the list
validateTechnicalAssessment_NoEnumCheck(tech) ==
    Obj([level |-> OrElse(OptGet(tech, "level"), Str("mid")),
         skills_demonstrated |-> SliceOr(OptGet(tech, "skills_demonstrated"), 8, Arr(<<>>)),
         knowledge_gaps |-> SliceOr(OptGet(tech, "knowledge_gaps"), 4, Arr(<<>>)),
         problem_solving_approach |-> OrElse(OptGet(tech, "problem_solving_approach"),
                                             Str("Structured problem-solving approach observed"))])

validateTechnicalAssessment(tech) ==
    Obj([level |-> IF Includes({"junior", "mid", "senior", "staff", "principal"}, OptGet(tech, "level"))
                   THEN Get(tech, "level") ELSE Str("mid"),
         skills_demonstrated |-> SliceOr(OptGet(tech, "skills_demonstrated"), 8, Arr(<<>>)),
         knowledge_gaps |-> SliceOr(OptGet(tech, "knowledge_gaps"), 4, Arr(<<>>)),
         problem_solving_approach |-> OrElse(OptGet(tech, "problem_solving_approach"),
                                             Str("Structured problem-solving approach observed"))])

validateCommunicationAnalysis(comm) ==
    Obj([clarity |-> IF Includes({"poor", "fair", "good", "excellent"}, OptGet(comm, "clarity"))
                     THEN Get(comm, "clarity") ELSE Str("good"),
         structure |-> OrElse(OptGet(comm, "structure"), Str("Well-organized responses")),
         listening |-> OrElse(OptGet(comm, "listening"), Str("Good comprehension of questions")),
         questioning |-> OrElse(OptGet(comm, "questioning"), Str("Asked relevant follow-up questions"))])

validateEntities(entities) ==
    Obj([technologies |-> SliceOr(OptGet(entities, "technologies"), 10, Arr(<<>>)),
         companies |-> SliceOr(OptGet(entities, "companies"), 5, Arr(<<>>)),
         projects |-> SliceOr(OptGet(entities, "projects"), 5, Arr(<<>>)),
         methodologies |-> SliceOr(OptGet(entities, "methodologies"), 5, Arr(<<>>))])

FlowItem(f) ==
    Obj([section |-> OrElse(Get(f, "section"), Str("discussion")),
         summary |-> OrElse(Get(f, "summary"), Str("Interview section covered")),
         key_moments |-> SliceOr(Get(f, "key_moments"), 3, Arr(<<>>)),
         duration_estimate |-> OrElse(Get(f, "duration_estimate"), Str("5-10 minutes"))])

validateInterviewFlow(flow) ==
    IF ~IsArray(flow) THEN Arr(<<>>)
    ELSE MapElems(Slice(flow, 8), FlowItem)

\* variant: Math.min(1, Math.max(10, c))
ClampConfidence_Swapped(n) == Min2(Whole(1), Max2(Whole(10), n))

\* Math.max(1, Math.min(10, c)), in hundredths
ClampConfidence(n) == Max2(Whole(1), Min2(Whole(10), n))

validateOverallRecommendation(rec) ==
    Obj([decision |-> IF Includes({"strong_hire", "hire", "maybe", "no_hire"}, OptGet(rec, "decision"))
                      THEN Get(rec, "decision") ELSE Str("maybe"),
         confidence |-> IF OptGet(rec, "confidence").t = "num"
                        THEN Num(ClampConfidence(Get(rec, "confidence").n)) ELSE Num(Whole(7)),
         key_strengths |-> SliceOr(OptGet(rec, "key_strengths"), 4, Arr(<<Str("Analysis completed")>>)),
         main_concerns |-> SliceOr(OptGet(rec, "main_concerns"), 3, Arr(<<>>)),
         cultural_fit |-> OrElse(OptGet(rec, "cultural_fit"),
                                 Str("Positive indicators for team collaboration")),
         next_steps |-> OrElse(OptGet(rec, "next_steps"),
                               Str("Recommend technical deep-dive interview"))])

validateInterviewQuality(quality) ==
    Obj([questions_effectiveness |-> OrElse(OptGet(quality, "questions_effectiveness"),
                Str("Standard interview questions covered relevant topics")),
         areas_not_explored |-> SliceOr(OptGet(quality, "areas_not_explored"), 3, Arr(<<>>)),
         suggested_follow_ups |-> SliceOr(OptGet(quality, "suggested_follow_ups"), 4, Arr(<<>>))])

\* Fallback analysis when JSON parsing fails; neither argument is read.
createFallbackAnalysis(transcript, rawResponse) ==
    Obj([highlights |-> Arr(<<Obj([text |-> Str("AI analysis completed but response parsing failed"),
                                   category |-> Str("general"),
                                   confidence |-> Num(50),
                                   reasoning |-> Str("Technical issue with response format")])>>),
         improvements |-> Arr(<<Obj([text |-> Str("Please retry the analysis"),
                                     suggestion |-> Str("The AI provided analysis but in an unexpected format"),
                                     priority |-> Str("high"),
                                     category |-> Str("technical")])>>),
         technical_assessment |-> Obj([level |-> Str("unknown"),
                                       skills_demonstrated |-> Arr(<<>>),
                                       knowledge_gaps |-> Arr(<<Str("Analysis incomplete")>>),
                                       problem_solving_approach |-> Str("Unable to assess due to parsing error")]),
         communication_analysis |-> Obj([clarity |-> Str("unknown"),
                                         structure |-> Str("Unable to assess"),
                                         listening |-> Str("Unable to assess"),
                                         questioning |-> Str("Unable to assess")]),
         entities |-> Obj([technologies |-> Arr(<<>>),
                           companies |-> Arr(<<>>),
                           projects |-> Arr(<<>>),
                           methodologies |-> Arr(<<>>)]),
         interview_flow |-> Arr(<<>>),
         overall_recommendation |-> Obj([decision |-> Str("maybe"),
                                         confidence |-> Num(Whole(5)),
                                         key_strengths |-> Arr(<<Str("Requires manual review")>>),
                                         main_concerns |-> Arr(<<Str("Analysis parsing failed")>>),
                                         cultural_fit |-> Str("Unable to assess"),
                                         next_steps |-> Str("Manual review recommended")]),
         interview_quality |-> Obj([questions_effectiveness |-> Str("Unable to assess due to technical issue"),
                                    areas_not_explored |-> Arr(<<>>),
                                    suggested_follow_ups |-> Arr(<<>>)])])

\* The object literal built from the eight validators; a TypeError raised
\* while it is built leaves the try block.
Validated(parsed) ==
    LET hl == validateHighlights(Get(parsed, "highlights"))
        im == validateImprovements(Get(parsed, "improvements"))
        fl == validateInterviewFlow(Get(parsed, "interview_flow"))
    IN IF parsed.t \in {"undef", "null", "throw"} THEN Throw
       ELSE IF Throw \in {hl, im, fl} THEN Throw
       ELSE Obj([highlights |-> hl,
                 improvements |-> im,
                 technical_assessment |-> validateTechnicalAssessment(Get(parsed, "technical_assessment")),
                 communication_analysis |-> validateCommunicationAnalysis(Get(parsed, "communication_analysis")),
                 entities |-> validateEntities(Get(parsed, "entities")),
                 interview_flow |-> fl,
                 overall_recommendation |-> validateOverallRecommendation(Get(parsed, "overall_recommendation")),
                 interview_quality |-> validateInterviewQuality(Get(parsed, "interview_quality"))])

\* the validator the object literal applies to parsed[field]
ValidateField(fld, x) ==
    CASE fld = "highlights" -> validateHighlights(x)
      [] fld = "improvements" -> validateImprovements(x)
      [] fld = "technical_assessment" -> validateTechnicalAssessment(x)
      [] fld = "communication_analysis" -> validateCommunicationAnalysis(x)
      [] fld = "entities" -> validateEntities(x)
      [] fld = "interview_flow" -> validateInterviewFlow(x)
      [] fld = "overall_recommendation" -> validateOverallRecommendation(x)
      [] OTHER -> validateInterviewQuality(x)

\* variant: the catch block returns the default-filled object
CatchFallback_Defaults(v, originalTranscript, responseText) ==
    IF v = Throw THEN Validated(Obj(<<>>)) ELSE v

\* variant: no catch block, the exception leaves the normalizer
CatchFallback_Rethrow(v, originalTranscript, responseText) == v

\* try { ... } catch { return createFallbackAnalysis(...) }
CatchFallback(v, originalTranscript, responseText) ==
    IF v = Throw THEN createFallbackAnalysis(originalTranscript, responseText) ELSE v

\* response-parser.js
parseAndValidateResponse(responseText, originalTranscript) ==
    LET jsonMatch == MatchBraces(responseText)
        jsonText == IF jsonMatch.found THEN jsonMatch.text ELSE responseText
        parsed == JSONparse(jsonText)
    IN CatchFallback(Validated(parsed), originalTranscript, responseText)

\* jsonText.includes('```json')
IncludesJsonFence(text) ==
    \E i \in 1..(Len(text) - 1) : text[i] = TFence /\ text[i + 1] = TJsonTag

IncludesFence(text) == \E i \in 1..Len(text) : text[i] = TFence

\* text.split(sep)[1].split('```')[0] where the separator starts at token
\* `at` and is `width` tokens long: what follows it up to the next fence.
AfterFence(text, at, width) ==
    LET rest == SubSeq(text, at + width, Len(text))
        fences == {i \in 1..Len(rest) : rest[i] = TFence}
    IN IF fences = {} THEN rest
       ELSE SubSeq(rest, 1, (CHOOSE i \in fences : \A j \in fences : i <= j) - 1)

\* variant: fences are not looked for, the trimmed text is parsed as it is
ExtractFenced_TrimOnly(responseText) == Trim(responseText)

\* ResponseValidator: the text inside the first fenced block, or the trimmed text.
ExtractFenced(responseText) ==
    LET jsonText == Trim(responseText)
        tagged == {i \in 1..(Len(jsonText) - 1) : jsonText[i] = TFence /\ jsonText[i + 1] = TJsonTag}
        plain == {i \in 1..Len(jsonText) : jsonText[i] = TFence}
    IN IF IncludesJsonFence(jsonText)
       THEN Trim(AfterFence(jsonText, CHOOSE i \in tagged : \A j \in tagged : i <= j, 2))
       ELSE IF IncludesFence(jsonText)
       THEN Trim(AfterFence(jsonText, CHOOSE i \in plain : \A j \in plain : i <= j, 1))
       ELSE jsonText

\* ResponseValidator.parseAndValidateResponse
RV_parseAndValidateResponse(responseText, originalTranscript) ==
    CatchFallback(Validated(JSONparse(ExtractFenced(responseText))),
                  originalTranscript, responseText)

RequiredFields ==
    {"highlights", "improvements", "technical_assessment", "communication_analysis",
     "entities", "interview_flow", "overall_recommendation", "interview_quality"}

\* every required field is an own property of the analysis
validateAnalysisStructure(analysis) ==
    {field \in RequiredFields : field \notin DOMAIN analysis.o} = {}

(***************************************************************************)
(* Transcripts                                                             *)
(* A transcript is null or a string made of `lead` white-space characters, *)
(* `words` words of `wordLen` non-white-space characters separated by      *)
(* `sep` white-space characters, and `trail` white-space characters.       *)
(* hasTech / hasCompanies say whether the keyword patterns of the demo     *)
(* generator match the text.                                               *)
(***************************************************************************)
Transcript(lead, words, wordLen, sep, trail, tech, comp) ==
    [lead |-> lead, words |-> words, wordLen |-> wordLen, sep |-> sep, trail |-> trail,
     hasTech |-> tech, hasCompanies |-> comp]

NullTranscript == [isNull |-> TRUE]

IsNullTranscript(tr) == "isNull" \in DOMAIN tr

\* transcript.trim().length
TrimLength(tr) ==
    IF tr.words = 0 THEN 0 ELSE tr.words * tr.wordLen + (tr.words - 1) * tr.sep

\* transcript.length
StrLength(tr) == tr.lead + TrimLength(tr) + tr.trail

\* number of characters that are not white space
NonWsLength(tr) == tr.words * tr.wordLen

\* transcript.split(/\s+/).length
WordCount(tr) ==
    IF tr.words = 0 THEN (IF tr.lead + tr.trail > 0 THEN 2 ELSE 1)
    ELSE tr.words + (IF tr.lead > 0 THEN 1 ELSE 0) + (IF tr.trail > 0 THEN 1 ELSE 0)

(***************************************************************************)
(* Analysis orchestrator (ai-service.js, deepseek-enhanced.js)             *)
(***************************************************************************)
MAX_RETRIES == 3
RETRY_DELAY == 1000
MIN_TRANSCRIPT_LENGTH == 50
LONG_INTERVIEW_WORDS == 800
PLACEHOLDER_KEY == "your_openrouter_api_key_here"

\* variant: <= instead of <
InputTooShort_Inclusive(tr) ==
    IsNullTranscript(tr) \/ StrLength(tr) = 0 \/ TrimLength(tr) <= MIN_TRANSCRIPT_LENGTH

\* !transcript || transcript.trim().length < 50
InputTooShort(tr) ==
    IsNullTranscript(tr) \/ StrLength(tr) = 0 \/ TrimLength(tr) < MIN_TRANSCRIPT_LENGTH

\* variant: the placeholder value is taken for a real key
KeyNotConfigured_NoSentinel(key) == ~Truthy(key)

\* !process.env.OPENROUTER_API_KEY || process.env.OPENROUTER_API_KEY === placeholder
KeyNotConfigured(key) == ~Truthy(key) \/ key = Str(PLACEHOLDER_KEY)

\* variant: the last attempt is compared against MAX_RETRIES + 1
LastAttempt_OffByOne(a) == a = MAX_RETRIES + 1

\* variant: the last-attempt branch is missing
LastAttempt_Never(a) == FALSE

\* attempt === MAX_RETRIES
LastAttempt(a) == a = MAX_RETRIES

\* variant: attempt < MAX_RETRIES
LoopContinues_Strict(a) == a < MAX_RETRIES

\* loop condition attempt <= MAX_RETRIES
LoopContinues(a) == a <= MAX_RETRIES

\* variant: a constant delay
BackoffDelay_Constant(a) == RETRY_DELAY

\* sleep(RETRY_DELAY * attempt)
BackoffDelay(a) == RETRY_DELAY * a

\* getDemoAnalysis / DemoAnalysisGenerator.generateDemoAnalysis (same body);
\* metadata.timestamp is left out.
getDemoAnalysis(tr) ==
    LET hasTech == tr.hasTech
        hasCompanies == tr.hasCompanies
        isLongInterview == WordCount(tr) > LONG_INTERVIEW_WORDS
    IN Obj([success |-> Bool(TRUE),
            analysis |-> Obj([
              highlights |-> Arr(<<
                Obj([text |-> Str("Demonstrated clear communication throughout the interview"),
                     category |-> Str("communication"),
                     confidence |-> Num(85),
                     reasoning |-> Str("Responses were well-structured and easy to follow")]),
                Obj([text |-> IF hasTech THEN Str("Strong technical knowledge in modern web development")
                                         ELSE Str("Good fundamental technical understanding"),
                     category |-> Str("technical_skill"),
                     confidence |-> IF hasTech THEN Num(90) ELSE Num(70),
                     reasoning |-> Str("Showed familiarity with relevant technologies and concepts")]),
                Obj([text |-> Str("Proactive about asking clarifying questions"),
                     category |-> Str("problem_solving"),
                     confidence |-> Num(80),
                     reasoning |-> Str("Good practice for understanding requirements before solving")])>>),
              improvements |-> Arr(<<
                Obj([text |-> Str("Could provide more specific examples with quantified impact"),
                     suggestion |-> Str("When describing achievements, include metrics like performance improvements or user impact"),
                     priority |-> Str("medium"),
                     category |-> Str("communication")]),
                Obj([text |-> Str("Opportunity to discuss system design considerations"),
                     suggestion |-> Str("Elaborate on scalability, reliability, and trade-offs in technical solutions"),
                     priority |-> Str("medium"),
                     category |-> Str("technical")])>>),
              technical_assessment |-> Obj([
                level |-> IF hasTech THEN (IF isLongInterview THEN Str("senior") ELSE Str("mid"))
                                     ELSE Str("junior"),
                skills_demonstrated |-> IF hasTech
                    THEN Arr(<<Str("JavaScript"), Str("React"), Str("Node.js"), Str("System Design"), Str("Problem Solving")>>)
                    ELSE Arr(<<Str("Programming Fundamentals"), Str("Logical Thinking")>>),
                knowledge_gaps |-> IF isLongInterview THEN Arr(<<>>)
                    ELSE Arr(<<Str("Advanced system architecture"), Str("Performance optimization")>>),
                problem_solving_approach |-> Str("Systematic approach with good questioning technique")]),
              communication_analysis |-> Obj([
                clarity |-> Str("good"),
                structure |-> Str("Well-organized responses with clear examples"),
                listening |-> Str("Good comprehension and appropriate follow-up questions"),
                questioning |-> Str("Asked relevant questions about requirements and constraints")]),
              entities |-> Obj([
                technologies |-> IF hasTech
                    THEN Arr(<<Str("JavaScript"), Str("React"), Str("Node.js"), Str("Database"), Str("API")>>)
                    ELSE Arr(<<Str("Programming")>>),
                companies |-> IF hasCompanies
                    THEN Arr(<<Str("Google"), Str("Microsoft"), Str("Amazon")>>)
                    ELSE Arr(<<Str("Tech Company")>>),
                projects |-> Arr(<<Str("Web Application"), Str("System Design")>>),
                methodologies |-> Arr(<<Str("Agile"), Str("Problem-Solving Process")>>)]),
              interview_flow |-> Arr(<<
                Obj([section |-> Str("introduction"),
                     summary |-> Str("Background and experience discussion"),
                     key_moments |-> Arr(<<Str("Professional background"), Str("Key experiences")>>),
                     duration_estimate |-> Str("8-10 minutes")]),
                Obj([section |-> Str("technical_questions"),
                     summary |-> Str("Technical problem-solving and system design"),
                     key_moments |-> Arr(<<Str("Approach explanation"), Str("Technology choices"), Str("Trade-off considerations")>>),
                     duration_estimate |-> Str("15-20 minutes")]),
                Obj([section |-> Str("candidate_questions"),
                     summary |-> Str("Questions about role and team"),
                     key_moments |-> Arr(<<Str("Interest in team dynamics"), Str("Growth opportunities")>>),
                     duration_estimate |-> Str("5-8 minutes")])>>),
              overall_recommendation |-> Obj([
                decision |-> IF hasTech THEN Str("hire") ELSE Str("maybe"),
                confidence |-> IF hasTech THEN Num(Whole(8)) ELSE Num(Whole(6)),
                key_strengths |-> Arr(<<Str("Clear communication skills"),
                                        IF hasTech THEN Str("Strong technical foundation") ELSE Str("Good learning potential"),
                                        Str("Collaborative approach")>>),
                main_concerns |-> IF isLongInterview THEN Arr(<<>>)
                    ELSE Arr(<<Str("Limited experience with complex systems")>>),
                cultural_fit |-> Str("Positive indicators for team collaboration and growth mindset"),
                next_steps |-> IF hasTech THEN Str("Technical deep-dive or system design round")
                                          ELSE Str("Pair programming or technical assessment")]),
              interview_quality |-> Obj([
                questions_effectiveness |-> Str("Good coverage of technical and behavioral aspects"),
                areas_not_explored |-> IF isLongInterview THEN Arr(<<>>)
                    ELSE Arr(<<Str("Leadership experience"), Str("Conflict resolution")>>),
                suggested_follow_ups |-> Arr(<<Str("System design deep-dive"), Str("Code review exercise"),
                                               Str("Team collaboration scenarios")>>)])]),
            metadata |-> Obj([model |-> Str("Demo Mode - Enhanced Analysis"),
                              transcript_length |-> Num(Whole(StrLength(tr))),
                              demo_mode |-> Bool(TRUE),
                              analysis_type |-> Str("fallback")])])

MODEL == "deepseek/deepseek-r1-distill-llama-70b:free"

\* variant: a reply that resolves to the FallbackAnalysis rejects the attempt
performAnalysis_RetryOnFallback(tr, attemptNumber, outcome) ==
    IF outcome.kind # "content" THEN Throw
    ELSE IF outcome.text = <<>> THEN Throw
    ELSE IF parseAndValidateResponse(outcome.text, tr) \in {Throw, createFallbackAnalysis(tr, outcome.text)}
    THEN Throw
    ELSE Obj([success |-> Bool(TRUE),
              analysis |-> parseAndValidateResponse(outcome.text, tr),
              metadata |-> Obj([model |-> Str(MODEL),
                                transcript_length |-> Num(Whole(StrLength(tr))),
                                attempt_number |-> Num(Whole(attemptNumber)),
                                token_usage |-> Null])])

\* data.choices?.[0]?.message?.content of a 2xx reply, or the failure of the
\* request: outcome.kind is "conn_error" (fetch rejects), "non2xx"
\* (response.ok is false), "bad_body" (response.json() rejects),
\* "no_content" (no choices, no message or no content) or "content".
\* performAnalysis of ai-service.js; Throw stands for a rejected promise (an
\* exception of the normalizer would reject it as well).
performAnalysis(tr, attemptNumber, outcome) ==
    IF outcome.kind # "content" THEN Throw
    ELSE IF outcome.text = <<>> THEN Throw
    ELSE IF parseAndValidateResponse(outcome.text, tr) = Throw THEN Throw
    ELSE Obj([success |-> Bool(TRUE),
              analysis |-> parseAndValidateResponse(outcome.text, tr),
              metadata |-> Obj([model |-> Str(MODEL),
                                transcript_length |-> Num(Whole(StrLength(tr))),
                                attempt_number |-> Num(Whole(attemptNumber)),
                                token_usage |-> Null])])

\* performAnalysis of deepseek-enhanced.js: the content is trimmed first.
performAnalysisEnhanced(tr, attempt, outcome) ==
    IF outcome.kind # "content" THEN Throw
    ELSE IF Trim(outcome.text) = <<>> THEN Throw
    ELSE IF RV_parseAndValidateResponse(Trim(outcome.text), tr) = Throw THEN Throw
    ELSE Obj([success |-> Bool(TRUE),
              analysis |-> RV_parseAndValidateResponse(Trim(outcome.text), tr),
              metadata |-> Obj([model |-> Str(MODEL),
                                attempt_number |-> Num(Whole(attempt)),
                                transcript_length |-> Num(Whole(StrLength(tr))),
                                tokens_used |-> Str("unknown")])])

\* variant: the attempt number is not passed on, every attempt reports 1
PerformAnalysisOf_FirstAttempt(impl, tr, attempt, outcome) ==
    IF impl = "ai_service" THEN performAnalysis(tr, 1, outcome)
    ELSE performAnalysisEnhanced(tr, 1, outcome)

PerformAnalysisOf(impl, tr, attempt, outcome) ==
    IF impl = "ai_service" THEN performAnalysis(tr, attempt, outcome)
    ELSE performAnalysisEnhanced(tr, attempt, outcome)

(***************************************************************************)
(* Whisper transcription service (services/whisper.js)                     *)
(* The text of a segment is a sequence of words and single spaces (Sp).    *)
(***************************************************************************)
Sp == " "

\* text.trim()
TrimText(text) ==
    LET keep == {i \in 1..Len(text) : text[i] # Sp}
    IN IF keep = {} THEN <<>>
       ELSE SubSeq(text, CHOOSE i \in keep : \A j \in keep : i <= j,
                         CHOOSE i \in keep : \A j \in keep : i >= j)

\* the section keywords that occur inside the lower-cased word
KeywordsIn(word) ==
    CASE word \in {"experience", "Experience"} -> {"experience"}
      [] word = "Background" -> {"background"}
      [] word = "problem" -> {"problem"}
      [] word = "tissue" -> {"issue"}
      [] word \in {"solve", "resolved"} -> {"solve"}
      [] word = "approach" -> {"approach"}
      [] word = "system" -> {"system"}
      [] word = "design" -> {"design"}
      [] word \in {"ask", "task"} -> {"ask"}
      [] OTHER -> {}

\* lowerText.includes(kw)
TextIncludes(text, kw) == \E i \in 1..Len(text) : kw \in KeywordsIn(text[i])

TextIncludesAny(text, kws) == \E kw \in kws : TextIncludes(text, kw)

detectSectionType(text) ==
    IF TextIncludesAny(text, {"introduce", "background", "tell me about yourself", "experience"})
    THEN "introduction"
    ELSE IF TextIncludesAny(text, {"problem", "challenge", "difficult", "issue"})
    THEN "problem_discussion"
    ELSE IF TextIncludesAny(text, {"solution", "approach", "solve", "implement"})
    THEN "solution_discussion"
    ELSE IF TextIncludesAny(text, {"design", "architecture", "system", "build"})
    THEN "technical_design"
    ELSE IF TextIncludesAny(text, {"question", "ask", "clarification"})
    THEN "questions"
    ELSE "discussion"

\* MM:SS of a number of seconds, as its two numbers
formatTimestamp(seconds) == [mm |-> seconds \div 60, ss |-> seconds % 60]

\* length of the summary; the model counts words and spaces, not characters
SUMMARY_LENGTH == 100

\* content.substring(0, 100) + (content.length > 100 ? '...' : '')
SummaryOf(content) ==
    [head |-> SubSeq(content, 1, Min2(SUMMARY_LENGTH, Len(content))),
     ellipsis |-> Len(content) > SUMMARY_LENGTH]

\* let currentSection = null
NoSection == "null"

RECURSIVE TimelineFold_NoMerge(_, _, _, _)
\* variant: every segment starts a new entry
TimelineFold_NoMerge(segs, i, tl, currentSection) ==
    IF i > Len(segs) THEN tl
    ELSE LET text == TrimText(segs[i].text)
             timestamp == formatTimestamp(segs[i].start)
             n == Len(tl)
             closed == IF n > 0 THEN [tl EXCEPT ![n] = ("end" :> timestamp) @@ @] ELSE tl
         IN TimelineFold_NoMerge(segs, i + 1,
                                 Append(closed, [start |-> timestamp,
                                                 section |-> detectSectionType(text),
                                                 content |-> text, summary |-> SummaryOf(text)]),
                                 detectSectionType(text))

RECURSIVE TimelineFold(_, _, _, _)
\* segments.forEach(...) from segment i on
TimelineFold(segments, i, timeline, currentSection) ==
    IF i > Len(segments) THEN timeline
    ELSE LET segment == segments[i]
             text == TrimText(segment.text)
             timestamp == formatTimestamp(segment.start)
             sectionType == detectSectionType(text)
             n == Len(timeline)
         IN IF sectionType # currentSection
            THEN LET closed == IF currentSection # NoSection /\ n > 0
                               THEN [timeline EXCEPT ![n] = ("end" :> timestamp) @@ @]
                               ELSE timeline
                 IN TimelineFold(segments, i + 1,
                                 Append(closed, [start |-> timestamp, section |-> sectionType,
                                                 content |-> text, summary |-> SummaryOf(text)]),
                                 sectionType)
            ELSE IF n = 0 THEN TimelineFold(segments, i + 1, timeline, currentSection)
            ELSE LET content == timeline[n].content \o <<Sp>> \o text
                 IN TimelineFold(segments, i + 1,
                                 [timeline EXCEPT ![n] = [@ EXCEPT !.content = content,
                                                                   !.summary = SummaryOf(content)]],
                                 currentSection)

generateTimeline(segments) ==
    IF segments = <<>> THEN <<>> ELSE TimelineFold(segments, 1, <<>>, NoSection)

(***************************************************************************)
(* Follow-up service (services/followup-service.js): parseFollowupResponse *)
(* A reply is undefined, null, or a text given as its sequence of lines,   *)
(* each a sequence of tokens.                                              *)
(***************************************************************************)
FOLLOWUP_LIMIT == 3

\* a reply text, as its lines
Lines(ls) == [t |-> "lines", lines |-> ls]

\* a text value whose characters are kept as tokens
Txt(toks) == [t |-> "text", toks |-> toks]

RECURSIVE JoinLines(_)
\* the whole text: a line break is white space
JoinLines(lines) ==
    IF lines = <<>> THEN <<>>
    ELSE IF Len(lines) = 1 THEN lines[1]
    ELSE lines[1] \o <<TWs>> \o JoinLines(Tail(lines))

\* the lower-cased word
LowerCase(word) ==
    CASE word = "Question" -> "question"
      [] word = "What" -> "what"
      [] word = "Example" -> "example"
      [] OTHER -> word

\* the keywords that occur inside the word (case-sensitive)
FollowupKeywordsIn(word) ==
    CASE word \in {"question", "questions"} -> {"question"}
      [] word \in {"example", "examples"} -> {"example"}
      [] word \in {"plan", "explanation"} -> {"plan"}
      [] word = "problem" -> {"problem"}
      [] word = "scale" -> {"scale"}
      [] OTHER -> {}

IsWord(tk) == tk.k \in {"txt", "str"}

\* line.includes(kw)
LineIncludes(line, kw) ==
    \E i \in 1..Len(line) : IsWord(line[i]) /\ kw \in FollowupKeywordsIn(line[i].s)

\* q.includes(kw) for the lower-cased q
LowerIncludes(line, kw) ==
    \E i \in 1..Len(line) : IsWord(line[i]) /\ kw \in FollowupKeywordsIn(LowerCase(line[i].s))

\* q.includes('what if')
LowerIncludesWhatIf(line) ==
    \E i \in 1..(Len(line) - 2) :
        /\ IsWord(line[i]) /\ LowerCase(line[i].s) = "what"
        /\ line[i + 1] = TWs
        /\ IsWord(line[i + 2]) /\ LowerCase(line[i + 2].s) = "if"

inferCategory(question) ==
    IF \E kw \in {"example", "specific", "instance"} : LowerIncludes(question, kw)
    THEN "SPECIFICITY"
    ELSE IF \E kw \in {"implement", "execute", "plan", "step"} : LowerIncludes(question, kw)
    THEN "IMPLEMENTATION"
    ELSE IF LowerIncludesWhatIf(question)
            \/ \E kw \in {"challenge", "problem", "difficult"} : LowerIncludes(question, kw)
    THEN "CHALLENGES"
    ELSE IF \E kw \in {"scale", "grow", "million", "enterprise"} : LowerIncludes(question, kw)
    THEN "SCALE"
    ELSE "DEPTH"

\* line.includes('question') || line.startsWith('-') || line.match(/^\d+\./)
StartsSuggestion(line) ==
    \/ LineIncludes(line, "question")
    \/ (Len(line) >= 1 /\ line[1] = P("-"))
    \/ (Len(line) >= 2 /\ line[1].k = "num" /\ line[2] = P("."))

\* [\d\-\*\s]
IsLeadChar(tk) == tk.k \in {"num", "ws"} \/ tk = P("-") \/ tk = P("*")

\* line.replace(/^[\d\-\*\s]+/, '')
StripLead(line) ==
    LET stop == {i \in 1..Len(line) : ~IsLeadChar(line[i])}
    IN IF stop = {} THEN <<>>
       ELSE SubSeq(line, CHOOSE i \in stop : \A j \in stop : i <= j, Len(line))

\* .replace(/["']/g, ''): a quoted word loses its quotes
Unquote(line) == [i \in 1..Len(line) |-> IF line[i].k = "str" THEN TTxt(line[i].s) ELSE line[i]]

QuestionText(line) == Trim(Unquote(StripLead(line)))

SuggestionOf(line) ==
    Obj([question |-> Txt(QuestionText(line)),
         category |-> Str(inferCategory(QuestionText(line))),
         reasoning |-> Str("AI-generated strategic follow-up")])

RECURSIVE LinesFold(_, _, _, _)
\* for (const line of lines) from line i on, then the push after the loop
LinesFold(lines, i, suggestions, currentSuggestion) ==
    IF i > Len(lines)
    THEN IF currentSuggestion # Null THEN Append(suggestions, currentSuggestion) ELSE suggestions
    ELSE IF StartsSuggestion(lines[i])
    THEN LinesFold(lines, i + 1,
                   IF currentSuggestion # Null THEN Append(suggestions, currentSuggestion)
                   ELSE suggestions,
                   SuggestionOf(lines[i]))
    ELSE LinesFold(lines, i + 1, suggestions, currentSuggestion)

\* A missing reply makes aiResponse.match throw, a syntax error makes
\* JSON.parse throw: the catch block returns [].
parseFollowupResponse(aiResponse) ==
    IF aiResponse.t \in {"undef", "null"} THEN Arr(<<>>)
    ELSE LET jsonMatch == MatchBraces(JoinLines(aiResponse.lines))
         IN IF jsonMatch.found
            THEN LET parsed == JSONparse(jsonMatch.text)
                 IN IF parsed = Throw THEN Arr(<<>>)
                    ELSE IF Truthy(Get(parsed, "suggestions")) THEN Get(parsed, "suggestions")
                    ELSE Arr(<<>>)
            ELSE Arr(Slice(Arr(LinesFold(SelectSeq(aiResponse.lines, LAMBDA line : Trim(line) # <<>>),
                                         1, <<>>, Null)),
                           FOLLOWUP_LIMIT))

(***************************************************************************)
(* Inputs                                                                  *)
(***************************************************************************)
MaxPad == 1

\* <<words, wordLen, sep>>
Shapes ==
    {<<0, 0, 0>>, <<1, 9, 0>>, <<1, 49, 0>>, <<1, 50, 0>>,
     <<9, 5, 1>>, <<10, 5, 1>>, <<25, 1, 1>>, <<801, 1, 1>>}

Transcripts ==
    {NullTranscript} \cup
    {Transcript(l, sh[1], sh[2], sh[3], r, tech, comp) :
        l \in 0..MaxPad, sh \in Shapes, r \in 0..MaxPad, tech \in {FALSE}, comp \in {FALSE}} \cup
    {Transcript(0, 10, 5, 1, 0, TRUE, TRUE)}

ApiKeys == {Undef, Str(""), Str(PLACEHOLDER_KEY), Str("sk-or-v1-live")}

Impls == {"ai_service", "enhanced"}

RECURSIVE Stringify(_)
RECURSIVE JoinElems(_)
RECURSIVE JoinMembers(_, _)

\* the JSON text of a value, as the upstream would write it
Stringify(v) ==
    CASE v.t = "null" -> <<TLit("null")>>
      [] v.t = "bool" -> <<TLit(IF v.b THEN "true" ELSE "false")>>
      [] v.t = "num" -> <<TNum(v.n)>>
      [] v.t = "str" -> <<TStr(v.s)>>
      [] v.t = "arr" -> <<P("[")>> \o JoinElems(v.a) \o <<P("]")>>
      [] OTHER -> <<P("{")>> \o JoinMembers(v.o, DOMAIN v.o) \o <<P("}")>>

JoinElems(q) ==
    IF q = <<>> THEN <<>>
    ELSE IF Len(q) = 1 THEN Stringify(q[1])
    ELSE Stringify(q[1]) \o <<P(",")>> \o JoinElems(Tail(q))

JoinMembers(f, keys) ==
    IF keys = {} THEN <<>>
    ELSE LET k == CHOOSE x \in keys : TRUE
             m == <<TStr(k), P(":")>> \o Stringify(f[k])
         IN IF keys = {k} THEN m ELSE m \o <<P(",")>> \o JoinMembers(f, keys \ {k})

GoodHighlight ==
    Obj([text |-> Str("Explained the caching layer"), category |-> Str("technical_skill"),
         confidence |-> Num(90), reasoning |-> Str("Concrete example")])

GoodAnalysis ==
    Obj([highlights |-> Arr(<<GoodHighlight>>),
         improvements |-> Arr(<<Obj([text |-> Str("Be concise"), suggestion |-> Str("Use STAR"),
                                     priority |-> Str("low"), category |-> Str("communication")])>>),
         technical_assessment |-> Obj([level |-> Str("senior"),
                                       skills_demonstrated |-> Arr(<<Str("Go")>>),
                                       knowledge_gaps |-> Arr(<<>>),
                                       problem_solving_approach |-> Str("Top-down")]),
         communication_analysis |-> Obj([clarity |-> Str("excellent"), structure |-> Str("Clear"),
                                         listening |-> Str("Attentive"), questioning |-> Str("Curious")]),
         entities |-> Obj([technologies |-> Arr(<<Str("Redis")>>), companies |-> Arr(<<>>),
                           projects |-> Arr(<<Str("Billing")>>), methodologies |-> Arr(<<Str("Scrum")>>)]),
         interview_flow |-> Arr(<<Obj([section |-> Str("intro"), summary |-> Str("Background"),
                                       key_moments |-> Arr(<<Str("Greeting")>>),
                                       duration_estimate |-> Str("5 minutes")])>>),
         overall_recommendation |-> Obj([decision |-> Str("strong_hire"), confidence |-> Num(Whole(9)),
                                         key_strengths |-> Arr(<<Str("Depth")>>),
                                         main_concerns |-> Arr(<<>>),
                                         cultural_fit |-> Str("Strong"), next_steps |-> Str("Onsite")]),
         interview_quality |-> Obj([questions_effectiveness |-> Str("Effective"),
                                    areas_not_explored |-> Arr(<<Str("Testing")>>),
                                    suggested_follow_ups |-> Arr(<<Str("Design round")>>)])])

PartialAnalysis ==
    Obj([highlights |-> Arr(<<GoodHighlight>>),
         overall_recommendation |-> Obj([decision |-> Str("hire"), confidence |-> Num(Whole(8))])])

\* JSON values the upstream may send as the reply
SampleValues ==
    {GoodAnalysis,
     Obj(<<>>),
     Null, Bool(TRUE), Num(4200), Str("done"), Arr(<<>>), Arr(<<Num(100), Null>>),
     Obj([highlights |-> Arr(<<Null>>)]),
     Obj([highlights |-> Arr(<<Num(100), Str("x"), Obj(<<>>)>>)]),
     Obj([highlights |-> Str("none"), improvements |-> Null, interview_flow |-> Num(0)]),
     Obj([improvements |-> Arr(<<Obj([priority |-> Str("urgent")]), Null>>)]),
     Obj([interview_flow |-> Arr(<<Obj([key_moments |-> Str("x")]), Null>>)]),
     Obj([technical_assessment |-> Null, communication_analysis |-> Str("x"),
          entities |-> Arr(<<>>), interview_quality |-> Num(100)]),
     Obj([overall_recommendation |-> Obj([decision |-> Str("super_hire"), confidence |-> Num(Whole(15))])]),
     Obj([overall_recommendation |-> Obj([decision |-> Str("hire"), confidence |-> Num(Whole(0 - 3))])]),
     Obj([analysis |-> GoodAnalysis]),
     Obj([highlights |-> Arr(<<Obj([text |-> Num(4200), category |-> Str("teamwork"),
                                    confidence |-> Num(150), reasoning |-> Arr(<<>>)])>>)]),
     Obj([overall_recommendation |-> Obj([decision |-> Str("no_hire"), confidence |-> Num(750)])]),
     Obj([technical_assessment |-> Obj([level |-> Str("intern")]),
          communication_analysis |-> Obj([clarity |-> Num(300)])])}

\* texts that are not JSON
BrokenTexts ==
    {<<>>, <<TWs>>, <<TTxt("Sorry")>>, <<P("{")>>, <<P("}"), P("{")>>,
     <<P("{"), TStr("highlights"), P(":"), P("[")>>,
     <<P("{"), TStr("highlights"), P("}")>>,
     <<P("{"), P("}"), P(",")>>,
     <<P("["), TNum(100), P(","), P("]")>>,
     <<TFence, TJsonTag, TWs, TFence>>,
     SubSeq(Stringify(GoodAnalysis), 1, Len(Stringify(GoodAnalysis)) - 1)}

\* the text j inside a fenced block, tagged json or not, alone or inside prose
Fenced(j) ==
    {<<TFence, TJsonTag, TWs>> \o j \o <<TWs, TFence>>,
     <<TFence, TWs>> \o j \o <<TWs, TFence>>,
     <<TTxt("Here"), TWs, TFence, TJsonTag, TWs>> \o j \o <<TWs, TFence, TWs, TTxt("Thanks")>>}

\* a JSON text alone, padded, inside prose, or inside a fenced block
Wrappings(j) ==
    {j,
     <<TWs>> \o j \o <<TWs>>,
     <<TTxt("Here"), TWs>> \o j \o <<TWs, TTxt("Thanks")>>,
     j \o <<TWs>> \o j,
     j \o <<TWs, TTxt("done"), P("}")>>} \cup Fenced(j)

\* {"highlights":[{"text":"a ```42``` b"}]} : a string value that quotes a
\* fenced snippet
BacktickJson ==
    <<P("{"), TStr("highlights"), P(":"), P("["), P("{"), TStr("text"), P(":"),
      TStrOpen("a"), TFence, TNum(4200), TFence, TStrClose, P("}"), P("]"), P("}")>>

\* valid JSON object texts
JsonObjectTexts ==
    {Stringify(v) : v \in {x \in SampleValues : x.t = "obj"}} \cup {BacktickJson}

Replies ==
    BrokenTexts \cup UNION {Wrappings(Stringify(v)) : v \in SampleValues}
                \cup Wrappings(BacktickJson)

FailureKinds == {"conn_error", "non2xx", "bad_body", "no_content"}

\* the replies the orchestrator is run against
OrchReplies ==
    {<<>>, <<TWs>>, <<TTxt("Sorry")>>,
     <<P("{"), TStr("highlights"), P(":"), P("[")>>,
     <<P("{"), P("}")>>,
     <<TFence, TJsonTag, TWs, P("{"), P("}"), TWs, TFence>>,
     <<TLit("null")>>,
     Stringify(Obj([highlights |-> Arr(<<Null>>)])),
     <<TTxt("Here"), TWs>> \o Stringify(PartialAnalysis),
     Stringify(PartialAnalysis)}

Outcomes ==
    {[kind |-> k] : k \in FailureKinds} \cup {[kind |-> "content", text |-> r] : r \in OrchReplies}

(***************************************************************************)
(* Inputs of the per-field validators                                      *)
(***************************************************************************)
\* the longest array handed to a validator
MaxItems == 20

\* array lengths around a cap
Lengths(cap) == {0, 1, cap - 1, cap, cap + 1, MaxItems}

\* n distinct strings "s1", "s2", ...
StrItems(n) == [i \in 1..n |-> Str("s" \o ToString(i))]

HighlightN(i) ==
    Obj([text |-> Str("h" \o ToString(i)), category |-> Str("leadership"),
         confidence |-> Num(i), reasoning |-> Str("because")])

ImprovementN(i) ==
    Obj([text |-> Str("i" \o ToString(i)), suggestion |-> Str("practice"),
         priority |-> Str("low"), category |-> Str("communication")])

\* the i-th section has i - 1 key moments
FlowN(i) ==
    Obj([section |-> Str("f" \o ToString(i)), summary |-> Str("covered"),
         key_moments |-> Arr(StrItems(i - 1)), duration_estimate |-> Str("5 minutes")])

\* arrays of n items, and arrays of MaxItems items with one null element
ItemArrays(ItemN(_), cap) ==
    {Arr([i \in 1..n |-> ItemN(i)]) : n \in Lengths(cap)} \cup
    {Arr([i \in 1..MaxItems |-> IF i = k THEN Null ELSE ItemN(i)]) : k \in {1, cap, cap + 1}}

\* values that are not what a field should hold
Malformed ==
    {Undef, Null, Bool(FALSE), Num(0), Num(4200), Str(""), Str("none"), Obj(<<>>),
     Arr(<<Num(100), Str("x"), Obj(<<>>)>>)}

\* an object holding one key
One(k, v) == Obj(k :> v)

\* values tried for an enumerated property
EnumInputs(enum) ==
    {Str(e) : e \in enum} \cup
    {Null, Bool(TRUE), Num(300), Str(""), Str("super_hire"), Str("Senior"), Str("urgent"),
     Arr(<<Str("hire")>>), Obj(<<>>)}

ConfidenceInputs ==
    {Num(n) : n \in {0 - 300, 0 - 1, 0, 50, 99, 100, 101, 500, 750, 999, 1000, 1001, 1500, 100000}} \cup
    {Null, Bool(TRUE), Str("8"), Str(""), Arr(<<Num(800)>>), Obj(<<>>)}

FieldInputs(fld) ==
    CASE fld = "highlights" ->
             Malformed \cup ItemArrays(HighlightN, 6) \cup
             {Arr(<<Obj([category |-> Str("teamwork"), confidence |-> Num(150)])>>),
              Arr(<<Obj([text |-> Num(4200), confidence |-> Str("0.9")])>>)}
      [] fld = "improvements" ->
             Malformed \cup ItemArrays(ImprovementN, 4) \cup
             {Arr(<<One("priority", v)>>) : v \in EnumInputs({"high", "medium", "low"})}
      [] fld = "technical_assessment" ->
             Malformed \cup
             {One("level", v) : v \in EnumInputs({"junior", "mid", "senior", "staff", "principal"})} \cup
             {One("skills_demonstrated", Arr(StrItems(n))) : n \in Lengths(8)} \cup
             {One("knowledge_gaps", Arr(StrItems(n))) : n \in Lengths(4)} \cup
             {Obj([level |-> Str("staff"), skills_demonstrated |-> Arr(<<Null, Num(100)>>),
                   knowledge_gaps |-> Str("none"), problem_solving_approach |-> Num(100)])}
      [] fld = "communication_analysis" ->
             Malformed \cup
             {One("clarity", v) : v \in EnumInputs({"poor", "fair", "good", "excellent"})} \cup
             {Obj([clarity |-> Str("fair"), structure |-> Num(0), listening |-> Arr(<<>>)])}
      [] fld = "entities" ->
             Malformed \cup
             {One("technologies", Arr(StrItems(n))) : n \in Lengths(10)} \cup
             {One(k, Arr(StrItems(n))) : k \in {"companies", "projects", "methodologies"},
                                         n \in Lengths(5)}
      [] fld = "interview_flow" ->
             Malformed \cup ItemArrays(FlowN, 8) \cup
             {Arr(<<One("key_moments", Str("x")), One("section", Num(100))>>)}
      [] fld = "overall_recommendation" ->
             Malformed \cup
             {One("decision", v) : v \in EnumInputs({"strong_hire", "hire", "maybe", "no_hire"})} \cup
             {One("confidence", v) : v \in ConfidenceInputs} \cup
             {One("key_strengths", Arr(StrItems(n))) : n \in Lengths(4)} \cup
             {One("main_concerns", Arr(StrItems(n))) : n \in Lengths(3)} \cup
             {Obj([decision |-> Str("hire"), confidence |-> Num(Whole(8)),
                   key_strengths |-> Str("many"), cultural_fit |-> Bool(TRUE)])}
      [] OTHER ->
             Malformed \cup
             {One("areas_not_explored", Arr(StrItems(n))) : n \in Lengths(3)} \cup
             {One("suggested_follow_ups", Arr(StrItems(n))) : n \in Lengths(4)} \cup
             {One("questions_effectiveness", Num(100))}

(***************************************************************************)
(* State                                                                   *)
(***************************************************************************)
VARIABLES
    impl,        \* which service module serves the call
    apiKey,      \* process.env.OPENROUTER_API_KEY
    transcript,  \* argument of analyzeTranscript
    pc,          \* "idle", "fetching", "sleeping", "returned", "thrown"
    attempt,     \* loop variable of analyzeTranscript
    requests,    \* upstream requests issued so far
    inflight,    \* upstream requests awaiting their reply
    timers,      \* pending sleep timers
    waits,       \* the delays slept so far, in ms
    outcomes,    \* the outcome of every completed attempt
    result,      \* the value analyzeTranscript resolved with
    raw,         \* normalizer harness: the raw reply text
    parsedOut,   \* normalizer harness: result of response-parser.js
    parsedOutRV, \* normalizer harness: result of ResponseValidator
    phase,       \* harness position: "idle", "input", "parsed", "validated", "revalidated"
    field,       \* validator harness: which top-level field is validated
    fieldIn,     \* validator harness: the value of parsed[field]
    fieldOut,    \* validator harness: validator applied once
    fieldOut2,   \* validator harness: validator applied to its own output
    httpStatus,  \* status of the HTTP response, 0 while none is sent
    openaiKey,   \* process.env.OPENAI_API_KEY
    route,       \* audio request: "transcribe" or "complete"
    upload,      \* req.file: "missing", "rejected" (validateAudioFile throws), "accepted"
    apc,         \* position of the audio request
    transcription, \* the const binding `transcription` of transcribeAudio
    sdkResult,   \* the const binding `sdkResult` of transcribeAudio
    txResult,    \* the value transcribeAudio resolved with
    httpBody,    \* body of the HTTP response of the audio request
    aiResponse,  \* the reply handed to parseFollowupResponse
    suggestions, \* what parseFollowupResponse returned
    currentPage,            \* StateManager.currentPage
    selectedMentor,         \* StateManager.selectedMentor
    selectedInterviewType,  \* StateManager.selectedInterviewType
    selectionInProgress,    \* UIManager.selectionInProgress
    uiTimers,               \* pending setTimeout callbacks of the page, oldest first
    followupEnabled,        \* FollowupManager.followupEnabled
    lastConversationContext, \* FollowupManager.lastConversationContext
    followupBtnDisabled,    \* #suggestedFollowupBtn.disabled
    modalDisplay,           \* #followupModal.style.display
    modalActive,            \* #followupModal has the class active
    uiRequests,             \* pending fetches of the page
    segments,    \* the segments handed to generateTimeline
    timeline     \* what generateTimeline returned

vars == <<impl, apiKey, transcript, pc, attempt, requests, inflight, timers, waits,
          outcomes, result, raw, parsedOut, parsedOutRV, phase,
          field, fieldIn, fieldOut, fieldOut2, httpStatus,
          openaiKey, route, upload, apc, transcription, sdkResult, txResult, httpBody,
          aiResponse, suggestions,
          currentPage, selectedMentor, selectedInterviewType, selectionInProgress, uiTimers,
          followupEnabled, lastConversationContext, followupBtnDisabled,
          modalDisplay, modalActive, uiRequests,
          segments, timeline>>

orchVars == <<impl, apiKey, transcript, pc, attempt, requests, inflight, timers, waits,
              outcomes, result>>

NoResult == [t |-> "none"]

parseVars == <<raw, parsedOut, parsedOutRV>>

valVars == <<field, fieldIn, fieldOut, fieldOut2>>

audioVars == <<openaiKey, route, upload, apc, transcription, sdkResult, txResult, httpBody>>

\* the state of the parts added around the analysis service
followupVars == <<aiResponse, suggestions>>

uiVars == <<currentPage, selectedMentor, selectedInterviewType, selectionInProgress, uiTimers,
            followupEnabled, lastConversationContext, followupBtnDisabled,
            modalDisplay, modalActive, uiRequests>>

timelineVars == <<segments, timeline>>

extVars == <<audioVars, followupVars, uiVars, timelineVars>>

harnessVars == <<parseVars, phase, valVars, httpStatus, extVars>>

\* no audio request
AudioIdle ==
    /\ openaiKey = Undef
    /\ route = "none"
    /\ upload = "missing"
    /\ apc = "idle"
    /\ transcription = Null
    /\ sdkResult = Null
    /\ txResult = NoResult
    /\ httpBody = NoResult

\* no follow-up reply
FollowupIdle ==
    /\ aiResponse = Undef
    /\ suggestions = NoResult

\* the page as constructed (StateManager, UIManager, FollowupManager)
UiIdle ==
    /\ currentPage = "welcomePage"
    /\ selectedMentor = Null
    /\ selectedInterviewType = Null
    /\ selectionInProgress = FALSE
    /\ uiTimers = <<>>
    /\ followupEnabled = FALSE
    /\ lastConversationContext = Null
    /\ followupBtnDisabled = TRUE
    /\ modalDisplay = "none"
    /\ modalActive = FALSE
    /\ uiRequests = <<>>

\* no timeline asked for
TimelineIdle ==
    /\ segments = <<>>
    /\ timeline = NoResult

ExtIdle == AudioIdle /\ FollowupIdle /\ UiIdle /\ TimelineIdle

Init ==
    /\ impl \in Impls
    /\ apiKey \in ApiKeys
    /\ transcript \in Transcripts
    /\ pc = "idle"
    /\ attempt = 0
    /\ requests = 0
    /\ inflight = 0
    /\ timers = 0
    /\ waits = <<>>
    /\ outcomes = <<>>
    /\ result = NoResult
    /\ raw = <<>>
    /\ parsedOut = NoResult
    /\ parsedOutRV = NoResult
    /\ phase = "idle"
    /\ field = "highlights"
    /\ fieldIn = Undef
    /\ fieldOut = NoResult
    /\ fieldOut2 = NoResult
    /\ httpStatus = 0
    /\ ExtIdle

\* analyzeTranscript up to its first await: the precondition, the key check,
\* and the first fetch.
AnalyzeStart(tr) ==
    /\ pc = "idle"
    /\ transcript' = tr
    /\ IF InputTooShort(tr)
       THEN /\ pc' = "thrown"
            /\ UNCHANGED <<attempt, requests, inflight, result>>
       ELSE IF KeyNotConfigured(apiKey)
       THEN /\ pc' = "returned"
            /\ result' = getDemoAnalysis(tr)
            /\ UNCHANGED <<attempt, requests, inflight>>
       ELSE /\ pc' = "fetching"
            /\ attempt' = 1
            /\ requests' = requests + 1
            /\ inflight' = inflight + 1
            /\ UNCHANGED result
    /\ UNCHANGED <<impl, apiKey, timers, waits, outcomes>>

\* analyzeTranscript(transcript) called directly
Call == AnalyzeStart(transcript) /\ UNCHANGED harnessVars

\* variant: sleep() is not awaited, the next attempt starts at once
FetchComplete_NoAwait(outcome) ==
    /\ pc = "fetching"
    /\ outcomes' = Append(outcomes, outcome)
    /\ LET r == PerformAnalysisOf(impl, transcript, attempt, outcome)
       IN IF r # Throw
          THEN /\ pc' = "returned"
               /\ result' = r
               /\ inflight' = inflight - 1
               /\ UNCHANGED <<timers, waits, attempt, requests>>
          ELSE IF LastAttempt(attempt)
          THEN /\ pc' = "returned"
               /\ result' = getDemoAnalysis(transcript)
               /\ inflight' = inflight - 1
               /\ UNCHANGED <<timers, waits, attempt, requests>>
          ELSE /\ pc' = "fetching"
               /\ timers' = timers + 1
               /\ waits' = Append(waits, BackoffDelay(attempt))
               /\ attempt' = attempt + 1
               /\ requests' = requests + 1
               /\ inflight' = inflight
               /\ UNCHANGED result
    /\ UNCHANGED <<impl, apiKey, transcript, harnessVars>>

\* The awaited performAnalysis settles: return its result, or on a rejection
\* return the demo analysis (last attempt) or start the backoff timer.
FetchComplete(outcome) ==
    /\ pc = "fetching"
    /\ inflight' = inflight - 1
    /\ outcomes' = Append(outcomes, outcome)
    /\ LET r == PerformAnalysisOf(impl, transcript, attempt, outcome)
       IN IF r # Throw
          THEN /\ pc' = "returned"
               /\ result' = r
               /\ UNCHANGED <<timers, waits>>
          ELSE IF LastAttempt(attempt)
          THEN /\ pc' = "returned"
               /\ result' = getDemoAnalysis(transcript)
               /\ UNCHANGED <<timers, waits>>
          ELSE /\ pc' = "sleeping"
               /\ timers' = timers + 1
               /\ waits' = Append(waits, BackoffDelay(attempt))
               /\ UNCHANGED result
    /\ UNCHANGED <<impl, apiKey, transcript, attempt, requests, harnessVars>>

\* The backoff timer fires: attempt++, then the next fetch, or the end of
\* the loop with no return statement after it.
SleepDone ==
    /\ pc = "sleeping"
    /\ timers' = timers - 1
    /\ attempt' = attempt + 1
    /\ IF LoopContinues(attempt + 1)
       THEN /\ pc' = "fetching"
            /\ requests' = requests + 1
            /\ inflight' = inflight + 1
            /\ UNCHANGED result
       ELSE /\ pc' = "returned"
            /\ result' = Undef
            /\ UNCHANGED <<requests, inflight>>
    /\ UNCHANGED <<impl, apiKey, transcript, waits, outcomes, harnessVars>>

Next ==
    \/ Call
    \/ \E o \in Outcomes : FetchComplete(o)
    \/ SleepDone

Spec == Init /\ [][Next]_vars

\* every request and every timer eventually completes
FairSpec == Spec /\ WF_vars(Next)

(***************************************************************************)
(* POST /api/analyze: the route handler around analyzeTranscript           *)
(***************************************************************************)
\* !transcript for a body field that is missing or a string
TranscriptMissing(tr) == IsNullTranscript(tr) \/ StrLength(tr) = 0

\* the server imports analyzeTranscript from services/ai-service.js
HttpInit == Init /\ impl = "ai_service"

\* The handler up to its await: 400 when no transcript is provided, else the
\* call of analyzeTranscript up to its first await.
HttpAnalyze ==
    /\ httpStatus = 0
    /\ pc = "idle"
    /\ IF TranscriptMissing(transcript)
       THEN /\ httpStatus' = 400
            /\ UNCHANGED <<orchVars, parseVars, phase, valVars, extVars>>
       ELSE Call

\* analyzeTranscript settled: res.json(result), or the catch block's 500
HttpRespond ==
    /\ httpStatus = 0
    /\ pc \in {"returned", "thrown"}
    /\ httpStatus' = IF pc = "returned" THEN 200 ELSE 500
    /\ UNCHANGED <<orchVars, parseVars, phase, valVars, extVars>>

HttpNext ==
    \/ HttpAnalyze
    \/ \E o \in Outcomes : FetchComplete(o)
    \/ SleepDone
    \/ HttpRespond

HttpSpec == HttpInit /\ [][HttpNext]_vars

(***************************************************************************)
(* Audio endpoints: POST /api/transcribe and POST /api/complete            *)
(* (server.js) with transcribeAudio (services/whisper.js) split at its     *)
(* awaits.                                                                 *)
(***************************************************************************)
OPENAI_PLACEHOLDER_KEY == "your_openai_key_here"

OpenaiKeys == {Undef, Str(OPENAI_PLACEHOLDER_KEY), Str("sk-live")}

\* getOpenAIClient(): null unless the key is configured
getOpenAIClient(key) ==
    IF ~Truthy(key) \/ key = Str(OPENAI_PLACEHOLDER_KEY) THEN Null ELSE [client |-> key]

EmptyText == Transcript(0, 0, 0, 0, 0, FALSE, FALSE)

getMockTranscription ==
    [success |-> TRUE,
     transcription |-> [text |-> EmptyText, segments |-> <<>>, language |-> "en", duration |-> 0],
     metadata |-> [model |-> "mock-whisper", filename |-> "mock-audio.mp3", demo_mode |-> TRUE]]

\* extractEntities(text): four empty lists for an empty text, otherwise the
\* matches of its patterns in the text (left uninterpreted)
extractEntities(text) ==
    IF StrLength(text) = 0
    THEN [names |-> <<>>, companies |-> <<>>, technologies |-> <<>>, locations |-> <<>>]
    ELSE [matchesIn |-> text]

\* transcription.segments || []
SegmentsOf(tn) == IF "segments" \in DOMAIN tn THEN tn.segments ELSE <<>>

\* the value transcribeAudio returns for an upstream transcription
TranscriptionResult(tn) ==
    [success |-> TRUE,
     transcription |-> [text |-> tn.text,
                        segments |-> SegmentsOf(tn),
                        words |-> <<>>,
                        timeline |-> generateTimeline(SegmentsOf(tn)),
                        entities |-> extractEntities(tn.text),
                        language |-> tn.language,
                        duration |-> tn.duration],
     metadata |-> [model |-> "whisper-1", segmentCount |-> Len(SegmentsOf(tn))]]

\* tryDirectAPICall: the parsed body of an ok response, null otherwise
tryDirectAPICall(o) == IF o.ok THEN o.body ELSE Null

\* verbose_json bodies of the transcription upstream
WhisperBodies ==
    {[text |-> Transcript(0, 10, 5, 1, 0, FALSE, FALSE),
      segments |-> <<[text |-> <<Sp, "My", Sp, "experience">>, start |-> 0],
                     [text |-> <<"a", Sp, "problem">>, start |-> 61]>>,
      language |-> "en", duration |-> 70],
     [text |-> Transcript(0, 1, 9, 0, 0, FALSE, FALSE),
      segments |-> <<[text |-> <<"Thanks">>, start |-> 0]>>,
      language |-> "en", duration |-> 1],
     [text |-> Transcript(0, 10, 5, 1, 0, FALSE, FALSE), language |-> "en", duration |-> 70],
     [text |-> EmptyText, segments |-> <<>>, language |-> "en", duration |-> 0]}

UpstreamOutcomes == {[ok |-> FALSE]} \cup {[ok |-> TRUE, body |-> b] : b \in WhisperBodies}

AudioInit ==
    /\ impl = "ai_service"
    /\ apiKey \in ApiKeys
    /\ transcript = NullTranscript
    /\ pc = "idle"
    /\ attempt = 0
    /\ requests = 0
    /\ inflight = 0
    /\ timers = 0
    /\ waits = <<>>
    /\ outcomes = <<>>
    /\ result = NoResult
    /\ raw = <<>>
    /\ parsedOut = NoResult
    /\ parsedOutRV = NoResult
    /\ phase = "idle"
    /\ field = "highlights"
    /\ fieldIn = Undef
    /\ fieldOut = NoResult
    /\ fieldOut2 = NoResult
    /\ httpStatus = 0
    /\ openaiKey \in OpenaiKeys
    /\ route \in {"transcribe", "complete"}
    /\ upload \in {"missing", "rejected", "accepted"}
    /\ apc = "idle"
    /\ transcription = Null
    /\ sdkResult = Null
    /\ txResult = NoResult
    /\ httpBody = NoResult
    /\ FollowupIdle
    /\ UiIdle
    /\ TimelineIdle

notAudio == <<orchVars, parseVars, phase, valVars, followupVars, uiVars, timelineVars>>

\* transcribeAudio up to its first await
TranscribeStart ==
    IF getOpenAIClient(openaiKey) = Null
    THEN /\ apc' = "transcribed"
         /\ txResult' = getMockTranscription
    ELSE /\ apc' = "probe"
         /\ UNCHANGED txResult

\* POST /api/transcribe up to its first await
TranscribeRequest ==
    /\ route = "transcribe"
    /\ apc = "idle"
    /\ IF upload = "missing"
       THEN /\ apc' = "done"
            /\ httpStatus' = 400
            /\ httpBody' = [error |-> "No audio file provided"]
            /\ UNCHANGED txResult
       ELSE IF upload = "rejected"
       THEN /\ apc' = "done"
            /\ httpStatus' = 400
            /\ httpBody' = [error |-> "validationError"]
            /\ UNCHANGED txResult
       ELSE /\ TranscribeStart
            /\ UNCHANGED <<httpStatus, httpBody>>
    /\ UNCHANGED <<notAudio, openaiKey, route, upload, transcription, sdkResult>>

\* POST /api/complete up to its first await
CompleteRequest ==
    /\ route = "complete"
    /\ apc = "idle"
    /\ IF upload = "missing"
       THEN /\ apc' = "done"
            /\ httpStatus' = 400
            /\ httpBody' = [error |-> "No audio file provided"]
            /\ UNCHANGED txResult
       ELSE /\ TranscribeStart
            /\ UNCHANGED <<httpStatus, httpBody>>
    /\ UNCHANGED <<notAudio, openaiKey, route, upload, transcription, sdkResult>>

\* the connectivity test settles; its outcome is only logged
ProbeDone ==
    /\ apc = "probe"
    /\ apc' = "direct"
    /\ UNCHANGED <<notAudio, httpStatus, openaiKey, route, upload, transcription, sdkResult, txResult, httpBody>>

\* const transcription = await tryDirectAPICall(...)
DirectDone(o) ==
    /\ apc = "direct"
    /\ transcription' = tryDirectAPICall(o)
    /\ IF tryDirectAPICall(o) = Null
       THEN /\ apc' = "sdk"
            /\ UNCHANGED txResult
       ELSE /\ apc' = "transcribed"
            /\ txResult' = TranscriptionResult(tryDirectAPICall(o))
    /\ UNCHANGED <<notAudio, httpStatus, openaiKey, route, upload, sdkResult, httpBody>>

\* the SDK call settles. A rejection is caught; on success the assignment
\* `transcription = sdkResult` to the const binding throws a TypeError, which
\* is caught as well: both ways transcribeAudio returns the mock.
SdkDone(o) ==
    /\ apc = "sdk"
    /\ apc' = "transcribed"
    /\ sdkResult' = tryDirectAPICall(o)
    /\ txResult' = getMockTranscription
    /\ UNCHANGED <<notAudio, httpStatus, openaiKey, route, upload, transcription, httpBody>>

\* result.success ? result.transcription[key] : dflt, for a key that is there
ResponseField(res, key, dflt) ==
    IF res.success THEN res.transcription[key] ELSE dflt

\* responseData.timeline is undefined
TimelineUndefined(res) == res.success /\ "timeline" \notin DOMAIN res.transcription

\* POST /api/transcribe after transcribeAudio: reading .length of an
\* undefined timeline throws and the handler's catch answers 500
TranscribeRespond ==
    /\ route = "transcribe"
    /\ apc = "transcribed"
    /\ apc' = "done"
    /\ IF TimelineUndefined(txResult)
       THEN /\ httpStatus' = 500
            /\ httpBody' = [error |-> "Transcription failed"]
       ELSE /\ httpStatus' = 200
            /\ httpBody' =
                   [success |-> txResult.success,
                    transcript |-> ResponseField(txResult, "text", EmptyText),
                    timeline |-> ResponseField(txResult, "timeline", <<>>),
                    entities |-> ResponseField(txResult, "entities", <<>>),
                    segments |-> ResponseField(txResult, "segments", <<>>),
                    words |-> ResponseField(txResult, "words", <<>>),
                    metadata |-> txResult.metadata]
    /\ UNCHANGED <<notAudio, openaiKey, route, upload, transcription, sdkResult, txResult>>

\* POST /api/complete after transcribeAudio: analyzeTranscript is called
\* with the transcribed text
CompleteAnalyze ==
    /\ route = "complete"
    /\ apc = "transcribed"
    /\ IF ~txResult.success
       THEN /\ apc' = "done"
            /\ httpStatus' = 500
            /\ httpBody' = txResult
            /\ UNCHANGED orchVars
       ELSE /\ apc' = "analyzing"
            /\ AnalyzeStart(txResult.transcription.text)
            /\ UNCHANGED <<httpStatus, httpBody>>
    /\ UNCHANGED <<parseVars, phase, valVars, followupVars, uiVars, timelineVars,
                   openaiKey, route, upload, transcription, sdkResult, txResult>>

\* POST /api/complete after analyzeTranscript settled
CompleteRespond ==
    /\ route = "complete"
    /\ apc = "analyzing"
    /\ pc \in {"returned", "thrown"}
    /\ apc' = "done"
    /\ IF pc = "thrown" \/ result = Undef
       THEN /\ httpStatus' = 500
            /\ httpBody' = [error |-> "Processing failed"]
       ELSE /\ httpStatus' = 200
            /\ httpBody' = [success |-> TRUE,
                            transcription |-> txResult.transcription,
                            analysis |-> Get(result, "analysis"),
                            metadata |-> [transcription |-> txResult.metadata,
                                          analysis |-> Get(result, "metadata")]]
    /\ UNCHANGED <<notAudio, openaiKey, route, upload, transcription, sdkResult, txResult>>

AudioNext ==
    \/ TranscribeRequest
    \/ CompleteRequest
    \/ ProbeDone
    \/ \E o \in UpstreamOutcomes : DirectDone(o)
    \/ \E o \in UpstreamOutcomes : SdkDone(o)
    \/ TranscribeRespond
    \/ CompleteAnalyze
    \/ \E o \in Outcomes : FetchComplete(o)
    \/ SleepDone
    \/ CompleteRespond

AudioSpec == AudioInit /\ [][AudioNext]_vars

(***************************************************************************)
(* Follow-up harness: parseFollowupResponse applied to a reply             *)
(***************************************************************************)
MaxSuggestions == 4

\* the i-th suggestion of a JSON reply
JsonSuggestion(i) ==
    Obj([question |-> Str("Q" \o ToString(i)), category |-> Str("DEPTH"),
         reasoning |-> Str("r")])

JsonSuggestions(n) == Arr([i \in 1..n |-> JsonSuggestion(i)])

\* the i-th question of a list, in the numbered, dashed, starred or prose style
ListLine(style, i) ==
    LET q == <<TTxt("What"), TWs, TTxt("if"), TWs, TTxt("Q" \o ToString(i)), P("?")>>
    IN CASE style = "numbered" -> <<TNum(Whole(i)), P("."), TWs>> \o q
         [] style = "dashed" -> <<P("-"), TWs, TStr("example"), TWs>> \o q
         [] style = "starred" -> <<P("*"), TWs>> \o q
         [] style = "indented" -> <<TWs, P("-"), TWs>> \o q
         [] OTHER -> <<TTxt("Follow-up"), TWs, TTxt("question"), P(":"), TWs, TTxt("scale")>> \o q

ListLines(style, n) == [i \in 1..n |-> ListLine(style, i)]

Headers == {<<>>, <<<<TTxt("Here"), TWs, TTxt("you"), TWs, TTxt("go")>>, <<TWs>>>>}

FollowupReplies ==
    {Undef, Null} \cup
    {Lines(h \o <<Stringify(Obj([suggestions |-> JsonSuggestions(n)]))>>) :
        h \in Headers, n \in 0..MaxSuggestions} \cup
    {Lines(<<Stringify(Obj([suggestions |-> v]))>>) :
        v \in {Null, Str(""), Str("none"), Num(Whole(3)), Obj([question |-> Str("Q")])}} \cup
    {Lines(<<Stringify(Obj([questions |-> JsonSuggestions(1)]))>>),
     Lines(<<<<P("{"), TStr("suggestions"), P(":"), P("[")>>, <<P("}")>>>>),
     Lines(<<<<P("{")>>, <<TStr("suggestions"), P(":"), P("["), P("]")>>, <<P("}")>>>>)} \cup
    {Lines(h \o ListLines(style, n)) :
        h \in Headers, n \in 0..MaxSuggestions,
        style \in {"numbered", "dashed", "starred", "indented", "prose"}}

FollowupInit ==
    /\ impl = "ai_service"
    /\ apiKey = Undef
    /\ transcript = NullTranscript
    /\ pc = "idle"
    /\ attempt = 0
    /\ requests = 0
    /\ inflight = 0
    /\ timers = 0
    /\ waits = <<>>
    /\ outcomes = <<>>
    /\ result = NoResult
    /\ raw = <<>>
    /\ parsedOut = NoResult
    /\ parsedOutRV = NoResult
    /\ phase = "idle"
    /\ field = "highlights"
    /\ fieldIn = Undef
    /\ fieldOut = NoResult
    /\ fieldOut2 = NoResult
    /\ httpStatus = 0
    /\ AudioIdle
    /\ UiIdle
    /\ TimelineIdle
    /\ aiResponse \in FollowupReplies
    /\ suggestions = NoResult

\* const suggestions = parseFollowupResponse(aiResponse)
ParseFollowup ==
    /\ suggestions = NoResult
    /\ suggestions' = parseFollowupResponse(aiResponse)
    /\ UNCHANGED <<orchVars, parseVars, phase, valVars, httpStatus, audioVars, uiVars, timelineVars,
                   aiResponse>>

FollowupNext == ParseFollowup

FollowupSpec == FollowupInit /\ [][FollowupNext]_vars

(***************************************************************************)
(* Front end: page navigation (core/ui-manager.js, core/state-manager.js), *)
(* mentor requests (services/api-service.js) and follow-up suggestions     *)
(* (services/followup-manager.js).  A control is clicked on the page that  *)
(* shows it; timers and fetches complete as separate steps.  The `stale`   *)
(* field of a pending timer or request records that handleBackToWelcome    *)
(* ran after it was started; the program does not read it.                 *)
(***************************************************************************)
AUTO_ADVANCE_DELAY == 800
SELECTION_FLAG_DELAY == 100
MODAL_SHOW_DELAY == 10
MODAL_HIDE_DELAY == 300

MaxUiTimers == 2
MaxUiRequests == 2

MentorIds == {Str("yoda")}
InterviewTypeIds == {Str("behavioral"), Str("technical")}
UiTranscripts == {Str("t1"), Str("t2")}

Timer(kind, delay) == [kind |-> kind, delay |-> delay, stale |-> FALSE]

\* setTimeout(callback, delay)
SetTimeout(pending, kind, delay) == Append(pending, Timer(kind, delay))

RemoveAt(q, i) == SubSeq(q, 1, i - 1) \o SubSeq(q, i + 1, Len(q))

MarkStale(q) == [i \in 1..Len(q) |-> [q[i] EXCEPT !.stale = TRUE]]

\* a timer fires before every timer set later with the same or a longer delay
CanFire(i) == \A j \in 1..(i - 1) : uiTimers[j].delay > uiTimers[i].delay

UiInit ==
    /\ impl = "ai_service"
    /\ apiKey = Undef
    /\ transcript = NullTranscript
    /\ pc = "idle"
    /\ attempt = 0
    /\ requests = 0
    /\ inflight = 0
    /\ timers = 0
    /\ waits = <<>>
    /\ outcomes = <<>>
    /\ result = NoResult
    /\ raw = <<>>
    /\ parsedOut = NoResult
    /\ parsedOutRV = NoResult
    /\ phase = "idle"
    /\ field = "highlights"
    /\ fieldIn = Undef
    /\ fieldOut = NoResult
    /\ fieldOut2 = NoResult
    /\ httpStatus = 0
    /\ AudioIdle
    /\ FollowupIdle
    /\ TimelineIdle
    /\ UiIdle

notUi == <<orchVars, parseVars, phase, valVars, httpStatus, audioVars, followupVars, timelineVars>>

pageVars == <<currentPage, selectedMentor, selectedInterviewType, selectionInProgress>>

fuVars == <<followupEnabled, lastConversationContext, followupBtnDisabled>>

modalVars == <<modalDisplay, modalActive>>

handleBeginJourney ==
    /\ currentPage = "welcomePage"
    /\ currentPage' = "mentorPage"
    /\ UNCHANGED <<notUi, selectedMentor, selectedInterviewType, selectionInProgress,
                   uiTimers, fuVars, modalVars, uiRequests>>

handleMentorSelection(mentorId) ==
    /\ currentPage = "mentorPage"
    /\ Len(uiTimers) < MaxUiTimers
    /\ IF selectionInProgress
       THEN UNCHANGED <<selectionInProgress, selectedMentor, uiTimers>>
       ELSE /\ selectionInProgress' = TRUE
            /\ selectedMentor' = mentorId
            /\ uiTimers' = SetTimeout(uiTimers, "mentor", AUTO_ADVANCE_DELAY)
    /\ UNCHANGED <<notUi, currentPage, selectedInterviewType, fuVars, modalVars, uiRequests>>

handleInterviewTypeSelection(typeId) ==
    /\ currentPage = "interviewTypePage"
    /\ Len(uiTimers) < MaxUiTimers
    /\ selectedInterviewType' = typeId
    /\ uiTimers' = SetTimeout(uiTimers, "type", AUTO_ADVANCE_DELAY)
    /\ UNCHANGED <<notUi, currentPage, selectedMentor, selectionInProgress, fuVars,
                   modalVars, uiRequests>>

handleProceedToChat ==
    /\ currentPage = "interviewTypePage"
    /\ IF Truthy(selectedMentor) /\ Truthy(selectedInterviewType)
       THEN currentPage' = "chatPage"
       ELSE UNCHANGED currentPage
    /\ UNCHANGED <<notUi, selectedMentor, selectedInterviewType, selectionInProgress,
                   uiTimers, fuVars, modalVars, uiRequests>>

\* stateManager.reset(), followupManager.reset() (disableFollowups and
\* closeFollowupModal), showPage('welcomePage'); no timer is cleared and no
\* request is aborted
handleBackToWelcome ==
    /\ currentPage # "welcomePage"
    /\ Len(uiTimers) < MaxUiTimers
    /\ selectedMentor' = Null
    /\ selectedInterviewType' = Null
    /\ currentPage' = "welcomePage"
    /\ followupEnabled' = FALSE
    /\ lastConversationContext' = Null
    /\ followupBtnDisabled' = TRUE
    /\ modalActive' = FALSE
    /\ uiTimers' = SetTimeout(MarkStale(uiTimers), "hide", MODAL_HIDE_DELAY)
    /\ uiRequests' = MarkStale(uiRequests)
    /\ UNCHANGED <<notUi, selectionInProgress, modalDisplay>>

\* the callback of the i-th pending timer runs
TimerFire(i) ==
    /\ i \in 1..Len(uiTimers)
    /\ CanFire(i)
    /\ LET kind == uiTimers[i].kind
           rest == RemoveAt(uiTimers, i)
       IN CASE kind = "mentor" ->
                 /\ currentPage' = "interviewTypePage"
                 /\ uiTimers' = SetTimeout(rest, "flag", SELECTION_FLAG_DELAY)
                 /\ UNCHANGED <<selectionInProgress, modalVars>>
            [] kind = "flag" ->
                 /\ selectionInProgress' = FALSE
                 /\ uiTimers' = rest
                 /\ UNCHANGED <<currentPage, modalVars>>
            [] kind = "type" ->
                 /\ currentPage' = "chatPage"
                 /\ uiTimers' = rest
                 /\ UNCHANGED <<selectionInProgress, modalVars>>
            [] kind = "show" ->
                 /\ modalActive' = TRUE
                 /\ uiTimers' = rest
                 /\ UNCHANGED <<currentPage, selectionInProgress, modalDisplay>>
            [] kind = "hide" ->
                 /\ modalDisplay' = "none"
                 /\ uiTimers' = rest
                 /\ UNCHANGED <<currentPage, selectionInProgress, modalActive>>
    /\ UNCHANGED <<notUi, selectedMentor, selectedInterviewType, fuVars, uiRequests>>

\* sendToMentor up to its fetch
sendToMentor(tr) ==
    /\ currentPage = "chatPage"
    /\ Len(uiRequests) < MaxUiRequests
    /\ uiRequests' = Append(uiRequests, [kind |-> "analyze", transcript |-> tr, stale |-> FALSE])
    /\ UNCHANGED <<notUi, pageVars, uiTimers, fuVars, modalVars>>

\* sendToMentor after its fetch: enableFollowups on an ok response
AnalyzeResponse(i, ok) ==
    /\ i \in 1..Len(uiRequests)
    /\ uiRequests[i].kind = "analyze"
    /\ uiRequests' = RemoveAt(uiRequests, i)
    /\ IF ok
       THEN /\ followupEnabled' = TRUE
            /\ lastConversationContext' =
                   Obj([originalTranscript |-> uiRequests[i].transcript,
                        mentorResponse |-> uiRequests[i].transcript])
            /\ followupBtnDisabled' = FALSE
       ELSE UNCHANGED fuVars
    /\ UNCHANGED <<notUi, pageVars, uiTimers, modalVars>>

\* handleFollowupButtonClick up to the fetch of generateFollowups
handleFollowupButtonClick ==
    /\ currentPage = "chatPage"
    /\ ~followupBtnDisabled
    /\ Len(uiRequests) < MaxUiRequests
    /\ IF ~followupEnabled \/ ~Truthy(lastConversationContext)
       THEN UNCHANGED <<followupBtnDisabled, uiRequests>>
       ELSE /\ followupBtnDisabled' = TRUE
            /\ uiRequests' = Append(uiRequests,
                                    [kind |-> "followup",
                                     transcript |-> Get(lastConversationContext, "originalTranscript"),
                                     stale |-> FALSE])
    /\ UNCHANGED <<notUi, pageVars, uiTimers, followupEnabled, lastConversationContext, modalVars>>

\* followupBtn.disabled after resetButtonState()
resetButtonState == IF followupEnabled THEN FALSE ELSE followupBtnDisabled

\* handleFollowupButtonClick after generateFollowups: showFollowupModal on an
\* ok response, showError otherwise
FollowupResponse(i, ok) ==
    /\ i \in 1..Len(uiRequests)
    /\ uiRequests[i].kind = "followup"
    /\ ok => Len(uiTimers) < MaxUiTimers
    /\ uiRequests' = RemoveAt(uiRequests, i)
    /\ followupBtnDisabled' = resetButtonState
    /\ IF ok
       THEN /\ modalDisplay' = "block"
            /\ uiTimers' = SetTimeout(uiTimers, "show", MODAL_SHOW_DELAY)
       ELSE UNCHANGED <<modalDisplay, uiTimers>>
    /\ UNCHANGED <<notUi, pageVars, followupEnabled, lastConversationContext, modalActive>>

\* a click on the close control, outside the modal or on a suggestion
closeFollowupModal ==
    /\ modalDisplay = "block"
    /\ modalActive
    /\ Len(uiTimers) < MaxUiTimers
    /\ modalActive' = FALSE
    /\ uiTimers' = SetTimeout(uiTimers, "hide", MODAL_HIDE_DELAY)
    /\ UNCHANGED <<notUi, pageVars, fuVars, modalDisplay, uiRequests>>

UiNext ==
    \/ handleBeginJourney
    \/ \E m \in MentorIds : handleMentorSelection(m)
    \/ \E t \in InterviewTypeIds : handleInterviewTypeSelection(t)
    \/ handleProceedToChat
    \/ handleBackToWelcome
    \/ \E i \in 1..MaxUiTimers : TimerFire(i)
    \/ \E tr \in UiTranscripts : sendToMentor(tr)
    \/ \E i \in 1..MaxUiRequests, ok \in BOOLEAN : AnalyzeResponse(i, ok)
    \/ handleFollowupButtonClick
    \/ \E i \in 1..MaxUiRequests, ok \in BOOLEAN : FollowupResponse(i, ok)
    \/ closeFollowupModal

UiSpec == UiInit /\ [][UiNext]_vars

(***************************************************************************)
(* Timeline harness: generateTimeline applied to a list of segments        *)
(***************************************************************************)
MaxSegments == 3

SegmentTexts ==
    {<<Sp, "My", Sp, "experience", Sp>>, <<"a", Sp, "problem">>, <<"We", Sp, "solve">>,
     <<"system", Sp, "design">>, <<"the", Sp, "task">>, <<"Thanks">>, <<Sp>>}

\* start times in seconds of the segments, in the order of the recording
SegmentStarts == {[i \in 1..(MaxSegments + 1) |-> 45 * (i - 1)],
                  [i \in 1..(MaxSegments + 1) |-> IF i = 1 THEN 0 ELSE 61]}

SegmentLists ==
    UNION {{[i \in 1..n |-> [text |-> txt[i], start |-> st[i]]] :
                txt \in [1..n -> SegmentTexts], st \in SegmentStarts} : n \in 1..MaxSegments}

TimelineInit ==
    /\ impl = "ai_service"
    /\ apiKey = Undef
    /\ transcript = NullTranscript
    /\ pc = "idle"
    /\ attempt = 0
    /\ requests = 0
    /\ inflight = 0
    /\ timers = 0
    /\ waits = <<>>
    /\ outcomes = <<>>
    /\ result = NoResult
    /\ raw = <<>>
    /\ parsedOut = NoResult
    /\ parsedOutRV = NoResult
    /\ phase = "idle"
    /\ field = "highlights"
    /\ fieldIn = Undef
    /\ fieldOut = NoResult
    /\ fieldOut2 = NoResult
    /\ httpStatus = 0
    /\ AudioIdle
    /\ FollowupIdle
    /\ UiIdle
    /\ segments \in SegmentLists
    /\ timeline = NoResult

\* const timeline = generateTimeline(segments, words)
GenerateTimeline ==
    /\ timeline = NoResult
    /\ timeline' = Arr(generateTimeline(segments))
    /\ UNCHANGED <<orchVars, parseVars, phase, valVars, httpStatus, audioVars, followupVars,
                   uiVars, segments>>

TimelineNext == GenerateTimeline

TimelineSpec == TimelineInit /\ [][TimelineNext]_vars

(***************************************************************************)
(* Normalizer harness: both normalizers applied to a raw reply text        *)
(***************************************************************************)
ParseInit ==
    /\ impl = "ai_service"
    /\ apiKey = Undef
    /\ transcript = NullTranscript
    /\ pc = "idle"
    /\ attempt = 0
    /\ requests = 0
    /\ inflight = 0
    /\ timers = 0
    /\ waits = <<>>
    /\ outcomes = <<>>
    /\ result = NoResult
    /\ raw \in Replies
    /\ parsedOut = NoResult
    /\ parsedOutRV = NoResult
    /\ phase = "input"
    /\ field = "highlights"
    /\ fieldIn = Undef
    /\ fieldOut = NoResult
    /\ fieldOut2 = NoResult
    /\ httpStatus = 0
    /\ ExtIdle

Normalize ==
    /\ phase = "input"
    /\ parsedOut' = parseAndValidateResponse(raw, transcript)
    /\ parsedOutRV' = RV_parseAndValidateResponse(raw, transcript)
    /\ phase' = "parsed"
    /\ UNCHANGED <<raw, orchVars, valVars, httpStatus, extVars>>

ParseNext == Normalize

ParseSpec == ParseInit /\ [][ParseNext]_vars

(***************************************************************************)
(* Validator harness: one per-field validator applied to a value, then to  *)
(* its own output                                                          *)
(***************************************************************************)
ValidateInit ==
    /\ impl = "ai_service"
    /\ apiKey = Undef
    /\ transcript = NullTranscript
    /\ pc = "idle"
    /\ attempt = 0
    /\ requests = 0
    /\ inflight = 0
    /\ timers = 0
    /\ waits = <<>>
    /\ outcomes = <<>>
    /\ result = NoResult
    /\ raw = <<>>
    /\ parsedOut = NoResult
    /\ parsedOutRV = NoResult
    /\ phase = "input"
    /\ field \in RequiredFields
    /\ fieldIn \in FieldInputs(field)
    /\ fieldOut = NoResult
    /\ fieldOut2 = NoResult
    /\ httpStatus = 0
    /\ ExtIdle

\* validateX(parsed.x)
Validate ==
    /\ phase = "input"
    /\ fieldOut' = ValidateField(field, fieldIn)
    /\ phase' = "validated"
    /\ UNCHANGED <<orchVars, parseVars, field, fieldIn, fieldOut2, httpStatus, extVars>>

\* the validator applied again to the value it returned
Revalidate ==
    /\ phase = "validated"
    /\ fieldOut # Throw
    /\ fieldOut2' = ValidateField(field, fieldOut)
    /\ phase' = "revalidated"
    /\ UNCHANGED <<orchVars, parseVars, field, fieldIn, fieldOut, httpStatus, extVars>>

ValidateNext == Validate \/ Revalidate

ValidateSpec == ValidateInit /\ [][ValidateNext]_vars

(***************************************************************************)
(* Properties                                                              *)
(***************************************************************************)
\* an analysis object with exactly the eight top-level keys, each defined
HasEightKeys(a) ==
    /\ a.t = "obj"
    /\ DOMAIN a.o = RequiredFields
    /\ \A k \in RequiredFields : a.o[k].t \in {"arr", "obj"}

\* { success: true, analysis, metadata }
IsSuccessResult(r) ==
    /\ r.t = "obj"
    /\ DOMAIN r.o = {"success", "analysis", "metadata"}
    /\ r.o.success = Bool(TRUE)
    /\ HasEightKeys(r.o.analysis)

IsDemoResult(r) ==
    /\ IsSuccessResult(r)
    /\ "demo_mode" \in DOMAIN r.o.metadata.o
    /\ r.o.metadata.o.demo_mode = Bool(TRUE)

TransportFailure(o) == o.kind \in {"conn_error", "non2xx"}

\* the transcript passes the length precondition of analyzeTranscript
PassesPrecondition(tr) == ~IsNullTranscript(tr) /\ TrimLength(tr) >= 50

Done == pc \in {"returned", "thrown"}

\* C1: for a transcript that passes the length precondition, whatever the
\* outcomes of the attempts, analyzeTranscript returns an object with
\* success = true whose analysis has all eight keys; it never returns
\* undefined, and it throws only when the precondition fails.
C1_AlwaysConformantResult ==
    /\ pc = "returned" => PassesPrecondition(transcript) /\ IsSuccessResult(result)
    /\ pc = "thrown" => ~PassesPrecondition(transcript)
    /\ PassesPrecondition(transcript) => pc # "thrown"

C1_Witness ==
    /\ pc = "returned"
    /\ Len(outcomes) = 3
    /\ outcomes[1].kind = "conn_error"
    /\ outcomes[2].kind = "no_content"
    /\ outcomes[3].kind = "content"
    /\ outcomes[3].text = <<TTxt("Sorry")>>

\* C2: with credentials and a valid transcript, a call that meets only
\* transport failures ends after the third one: it has issued exactly three
\* upstream requests and returns the offline-demo result (demo_mode = true,
\* the generator's output for the transcript) instead of throwing.
C2_ThreeFailuresThenDemo ==
    /\ (/\ Len(outcomes) = 3
        /\ \A i \in 1..3 : TransportFailure(outcomes[i]))
       => pc = "returned"
    /\ (/\ pc \in {"returned", "thrown"}
        /\ outcomes # <<>>
        /\ \A i \in 1..Len(outcomes) : TransportFailure(outcomes[i]))
       => /\ pc = "returned"
          /\ Len(outcomes) = 3
          /\ requests = 3
          /\ inflight = 0
          /\ IsDemoResult(result)
          /\ result = getDemoAnalysis(transcript)

C2_Witness ==
    /\ pc = "returned"
    /\ ~KeyNotConfigured(apiKey)
    /\ Len(outcomes) = 3
    /\ \A i \in 1..3 : TransportFailure(outcomes[i])
    /\ IsDemoResult(result)

\* C3 as stated: fewer than 50 non-white-space characters is rejected
\* without any upstream request or wait, 50 or more is accepted.
C3_NonWhitespaceThreshold ==
    pc # "idle" =>
        IF IsNullTranscript(transcript) \/ NonWsLength(transcript) < 50
        THEN pc = "thrown" /\ requests = 0 /\ waits = <<>>
        ELSE pc # "thrown"

\* C3: a transcript that is null, empty or shorter than 50 characters once
\* leading and trailing white space is removed (inner white space counts)
\* is rejected with no upstream request and no backoff wait, whatever the
\* key; every other transcript, so every transcript with at least 50
\* non-white-space characters, is accepted.
C3_TrimmedThreshold ==
    pc # "idle" =>
        /\ IF IsNullTranscript(transcript) \/ TrimLength(transcript) < 50
           THEN pc = "thrown" /\ requests = 0 /\ waits = <<>> /\ timers = 0 /\ outcomes = <<>>
           ELSE pc # "thrown"
        /\ (~IsNullTranscript(transcript) /\ NonWsLength(transcript) >= 50) => pc # "thrown"

C3_Witness ==
    /\ pc = "thrown"
    /\ ~IsNullTranscript(transcript)
    /\ TrimLength(transcript) = 49
    /\ StrLength(transcript) > 50
    /\ ~KeyNotConfigured(apiKey)
    /\ requests = 0

\* C4: when the key is absent, empty or the placeholder, a valid transcript
\* gets the offline-demo result with no upstream request and no wait.
C4_NoKeyGivesDemo ==
    (/\ pc # "idle"
     /\ PassesPrecondition(transcript)
     /\ apiKey \in {Undef, Str(""), Str("your_openrouter_api_key_here")})
    => /\ pc = "returned"
       /\ requests = 0
       /\ outcomes = <<>>
       /\ waits = <<>>
       /\ timers = 0
       /\ IsDemoResult(result)

C4_Witness ==
    /\ pc = "returned"
    /\ apiKey = Str("your_openrouter_api_key_here")
    /\ requests = 0
    /\ IsDemoResult(result)

\* the text response-parser.js hands to JSON.parse
JsonTextOf(text) == IF MatchBraces(text).found THEN MatchBraces(text).text ELSE text

\* C5 (ai-service.js): an attempt whose 2xx reply has non-empty content that
\* the normalizer cannot parse as JSON ends the call at once: the result is
\* a success whose analysis is the FallbackAnalysis and whose attempt_number
\* is the index of that attempt; no request and no wait follows, and the
\* result is not the demo result.
C5_UnparsableReturnsFallback ==
    impl = "ai_service" =>
        \A i \in 1..Len(outcomes) :
            (/\ outcomes[i].kind = "content"
             /\ outcomes[i].text # <<>>
             /\ JSONparse(JsonTextOf(outcomes[i].text)) = Throw)
            => /\ i = Len(outcomes)
               /\ pc = "returned"
               /\ IsSuccessResult(result)
               /\ result.o.analysis = createFallbackAnalysis(transcript, outcomes[i].text)
               /\ result.o.metadata.o.attempt_number = Num(Whole(i))
               /\ "demo_mode" \notin DOMAIN result.o.metadata.o
               /\ requests = i
               /\ Len(waits) = i - 1
               /\ inflight = 0
               /\ timers = 0

C5_Witness ==
    /\ impl = "ai_service"
    /\ pc = "returned"
    /\ Len(outcomes) = 2
    /\ outcomes[1].kind = "non2xx"
    /\ outcomes[2].kind = "content"
    /\ outcomes[2].text = <<P("{"), TStr("highlights"), P(":"), P("[")>>
    /\ result.o.analysis.o.technical_assessment.o.level = Str("unknown")
    /\ requests = 2

\* attempt i has been followed by a backoff wait (and then by attempt i + 1)
Retried(i) == i < Len(outcomes) \/ (i = Len(outcomes) /\ pc = "sleeping")

\* C6 as stated: an attempt is followed by another only after a transport
\* failure (connection error, non-2xx status).
C6_OnlyTransportFailureRetries ==
    \A i \in 1..Len(outcomes) : Retried(i) => TransportFailure(outcomes[i])

\* the content is missing or empty for the service module that reads it
NoUsableContent(o) ==
    \/ o.kind \in {"bad_body", "no_content"}
    \/ o.kind = "content" /\ o.text = <<>>
    \/ o.kind = "content" /\ impl = "enhanced" /\ Trim(o.text) = <<>>

\* C6: an attempt is followed by another only if it was rejected: a
\* transport failure, an unreadable 2xx body, or a 2xx reply with missing or
\* empty content; an attempt whose 2xx reply carries non-empty content is
\* never followed by another attempt, whatever the content.
C6_OnlyRejectedAttemptRetries ==
    \A i \in 1..Len(outcomes) :
        /\ Retried(i) => TransportFailure(outcomes[i]) \/ NoUsableContent(outcomes[i])
        /\ ~(TransportFailure(outcomes[i]) \/ NoUsableContent(outcomes[i]))
           => i = Len(outcomes) /\ pc = "returned" /\ requests = i

C6_Witness ==
    /\ pc = "returned"
    /\ Len(outcomes) = 2
    /\ outcomes[1] = [kind |-> "content", text |-> <<>>]
    /\ outcomes[2] = [kind |-> "content", text |-> <<TTxt("Sorry")>>]
    /\ requests = 2

\* C7: if every request and every timer completes, every call completes,
\* with at most 3 upstream requests and at most 2 backoff waits, and never
\* leaves the retry loop without a result.
C7_TerminatesWithinBounds ==
    /\ <>Done
    /\ [](/\ requests <= 3
          /\ Len(waits) <= 2
          /\ Len(outcomes) <= 3
          /\ pc = "returned" => result.t = "obj")

C7_Witness ==
    /\ pc = "returned"
    /\ requests = 3
    /\ Len(waits) = 2
    /\ result.t = "obj"
    /\ outcomes[3].kind = "bad_body"

\* C8: at most one upstream request is in flight; a request and a backoff
\* wait never overlap; attempt k + 1 is in flight only after k attempts have
\* completed and k waits have been started and have finished.
C8_AttemptsAreSequential ==
    /\ inflight \in {0, 1}
    /\ timers \in {0, 1}
    /\ ~(inflight = 1 /\ timers = 1)
    /\ requests - Len(outcomes) = inflight
    /\ inflight = 1 => /\ Len(outcomes) = requests - 1
                       /\ Len(waits) = requests - 1
                       /\ timers = 0
    /\ timers = 1 => Len(waits) = requests /\ Len(outcomes) = requests

C8_Witness ==
    /\ pc = "fetching"
    /\ requests = 3
    /\ inflight = 1
    /\ timers = 0
    /\ Len(waits) = 2
    /\ Len(outcomes) = 2

RECURSIVE SumSeq(_)
SumSeq(q) == IF q = <<>> THEN 0 ELSE Head(q) + SumSeq(Tail(q))

\* C9: the wait after failed attempt k (k = 1, 2) is 1000 * k ms, there is
\* no wait after the third attempt, and a call that exhausts its retries
\* has waited 3000 ms in total.
C9_LinearBackoff ==
    /\ \A k \in 1..Len(waits) : waits[k] = 1000 * k
    /\ Len(waits) <= 2
    /\ Len(waits) = IF pc \in {"sleeping", "fetching"} \/ outcomes = <<>>
                    THEN Len(outcomes)
                    ELSE Len(outcomes) - 1
    /\ Len(outcomes) = 3 => SumSeq(waits) = 3000

C9_Witness ==
    /\ pc = "returned"
    /\ Len(outcomes) = 3
    /\ outcomes[3].kind = "non2xx"
    /\ waits = <<1000, 2000>>
    /\ timers = 0

\* C10: for every raw reply text both normalizers return, without throwing,
\* an object with exactly the eight top-level keys, none undefined.
C10_EightKeysAlways ==
    phase = "parsed" =>
        /\ parsedOut # Throw
        /\ HasEightKeys(parsedOut)
        /\ validateAnalysisStructure(parsedOut)
        /\ parsedOutRV # Throw
        /\ HasEightKeys(parsedOutRV)
        /\ validateAnalysisStructure(parsedOutRV)

C10_Witness ==
    /\ phase = "parsed"
    /\ raw = <<P("{"), P("}")>>
    /\ HasEightKeys(parsedOut)
    /\ parsedOut.o.highlights = Arr(<<>>)
    /\ parsedOut.o.overall_recommendation.o.decision = Str("maybe")

(***************************************************************************)
(* Value-level conformance to the AnalysisResult data model                *)
(***************************************************************************)
HighlightCategories == {"communication", "technical_skill", "problem_solving", "leadership", "general"}
TechLevels == {"junior", "mid", "senior", "staff", "principal"}
Clarities == {"poor", "fair", "good", "excellent"}
Decisions == {"strong_hire", "hire", "maybe", "no_hire"}
Priorities == {"high", "medium", "low"}

IsStr(v) == v.t = "str"

\* every element of the array satisfies Q
AllElems(arr, Q(_)) == \A i \in 1..Len(arr.a) : Q(arr.a[i])

HighlightConforms(h) ==
    /\ IsStr(h.o.text)
    /\ Includes(HighlightCategories, h.o.category)
    /\ h.o.confidence.t = "num"
    /\ h.o.confidence.n >= 0
    /\ h.o.confidence.n <= Whole(1)
    /\ IsStr(h.o.reasoning)

ImprovementConforms(i) ==
    /\ IsStr(i.o.text)
    /\ IsStr(i.o.suggestion)
    /\ Includes(Priorities, i.o.priority)
    /\ IsStr(i.o.category)

FlowConforms(f) ==
    /\ IsStr(f.o.section)
    /\ IsStr(f.o.summary)
    /\ IsStr(f.o.duration_estimate)

\* the AnalysisResult data model, value by value
ConformsValueByValue(a) ==
    /\ HasEightKeys(a)
    /\ AllElems(a.o.highlights, HighlightConforms)
    /\ AllElems(a.o.improvements, ImprovementConforms)
    /\ Includes(TechLevels, a.o.technical_assessment.o.level)
    /\ IsStr(a.o.technical_assessment.o.problem_solving_approach)
    /\ Includes(Clarities, a.o.communication_analysis.o.clarity)
    /\ IsStr(a.o.communication_analysis.o.structure)
    /\ IsStr(a.o.communication_analysis.o.listening)
    /\ IsStr(a.o.communication_analysis.o.questioning)
    /\ AllElems(a.o.interview_flow, FlowConforms)
    /\ Includes(Decisions, a.o.overall_recommendation.o.decision)
    /\ a.o.overall_recommendation.o.confidence.t = "num"
    /\ a.o.overall_recommendation.o.confidence.n % 100 = 0
    /\ a.o.overall_recommendation.o.confidence.n >= Whole(1)
    /\ a.o.overall_recommendation.o.confidence.n <= Whole(10)
    /\ IsStr(a.o.overall_recommendation.o.cultural_fit)
    /\ IsStr(a.o.overall_recommendation.o.next_steps)
    /\ IsStr(a.o.interview_quality.o.questions_effectiveness)

\* the reply was parsed and every validator returned
OnSuccessPath == phase = "parsed" /\ Validated(JSONparse(JsonTextOf(raw))) # Throw

\* the reply ended in the catch block
OnFailurePath == phase = "parsed" /\ Validated(JSONparse(JsonTextOf(raw))) = Throw

HighlightChecked(h) == h.o.confidence.t = "num" /\ Truthy(h.o.text) /\ Truthy(h.o.category)

ImprovementChecked(i) == Includes(Priorities, i.o.priority) /\ Truthy(i.o.text)

FieldDefault(fld) == ValidateField(fld, Undef)

\* C12 (as stated): for every reply that parses to a JSON object each of the
\* eight fields is validated on its own: a field that is absent, of the wrong
\* type or malformed inside (a null array element) gets its defaults, the
\* other seven fields are normalized as usual, and the result is never the
\* whole-object fallback analysis.
C12_FieldsValidatedIndependently ==
    (phase = "parsed" /\ JSONparse(JsonTextOf(raw)).t = "obj") =>
        LET parsed == JSONparse(JsonTextOf(raw))
        IN /\ parsedOut # createFallbackAnalysis(transcript, raw)
           /\ \A fld \in RequiredFields :
                 parsedOut.o[fld] = IF ValidateField(fld, Get(parsed, fld)) = Throw
                                    THEN FieldDefault(fld)
                                    ELSE ValidateField(fld, Get(parsed, fld))

\* the fallback analysis with its three characteristic values
IsFallbackAnalysis(a) ==
    /\ a = createFallbackAnalysis(transcript, raw)
    /\ a.o.technical_assessment.o.level = Str("unknown")
    /\ a.o.overall_recommendation.o.decision = Str("maybe")
    /\ a.o.overall_recommendation.o.confidence = Num(Whole(5))

\* C13 (as stated): for every reply that cannot be parsed (JSON syntax error,
\* or no {...} substring) parseAndValidateResponse does not throw and returns
\* the fallback analysis: level "unknown", decision "maybe", confidence 5.
C13_UnparsableOrBracelessGivesFallback ==
    (phase = "parsed" /\ (JSONparse(JsonTextOf(raw)) = Throw \/ ~MatchBraces(raw).found)) =>
        (parsedOut # Throw /\ IsFallbackAnalysis(parsedOut))

\* C13 (amended): for every reply whose extracted text (first "{" to last
\* "}", or the whole reply when there is none) is not valid JSON the
\* normalizer does not throw and returns the fallback analysis; a reply
\* without braces that is itself a JSON number, string, boolean or array is
\* parsed and gives the default-filled object (level "mid", confidence 7).
C13_SyntaxErrorGivesFallback ==
    phase = "parsed" =>
        /\ JSONparse(JsonTextOf(raw)) = Throw =>
              (parsedOut # Throw /\ IsFallbackAnalysis(parsedOut))
        /\ (~MatchBraces(raw).found /\ JSONparse(raw).t \in {"num", "str", "bool", "arr"}) =>
              /\ parsedOut = Validated(Obj(<<>>))
              /\ parsedOut.o.technical_assessment.o.level = Str("mid")
              /\ parsedOut.o.overall_recommendation.o.confidence = Num(Whole(7))

\* a truncated JSON object has been normalized to the fallback analysis
C13_Witness ==
    /\ phase = "parsed"
    /\ raw = <<P("{"), TStr("highlights"), P(":"), P("[")>>
    /\ IsFallbackAnalysis(parsedOut)

(***************************************************************************)
(* Per-field validators                                                    *)
(***************************************************************************)
FieldValidated == phase \in {"validated", "revalidated"}

\* the caps of the three top-level arrays
TopCaps == [highlights |-> 6, improvements |-> 4, interview_flow |-> 8]

\* the caps of the arrays inside the object-valued fields
SubCaps(fld) ==
    CASE fld = "technical_assessment" -> [skills_demonstrated |-> 8, knowledge_gaps |-> 4]
      [] fld = "entities" -> [technologies |-> 10, companies |-> 5, projects |-> 5, methodologies |-> 5]
      [] fld = "overall_recommendation" -> [key_strengths |-> 4, main_concerns |-> 3]
      [] fld = "interview_quality" -> [areas_not_explored |-> 3, suggested_follow_ups |-> 4]
      [] OTHER -> <<>>

\* the normalized form of one element of a top-level array
ItemOf(fld, x) ==
    CASE fld = "highlights" -> HighlightItem(x)
      [] fld = "improvements" -> ImprovementItem(x)
      [] OTHER -> FlowItem(x)

\* out is the array in cut at cap, element for element
IsPrefixCut(out, in, cap) ==
    /\ out.t = "arr"
    /\ out.a = SubSeq(in.a, 1, Min2(cap, Len(in.a)))

\* out holds, in order, the normalized first cap elements of in
IsMappedPrefix(fld, out, in) ==
    /\ out.t = "arr"
    /\ Len(out.a) = Min2(TopCaps[fld], Len(in.a))
    /\ \A i \in 1..Len(out.a) :
          /\ out.a[i] = ItemOf(fld, in.a[i])
          /\ (fld = "interview_flow" /\ IsArray(Get(in.a[i], "key_moments"))) =>
                IsPrefixCut(out.a[i].o.key_moments, Get(in.a[i], "key_moments"), 3)

TruncationHolds ==
    /\ (field \in DOMAIN TopCaps /\ IsArray(fieldIn)) =>
          /\ fieldOut # Throw
          /\ IsMappedPrefix(field, fieldOut, fieldIn)
    /\ \A k \in DOMAIN SubCaps(field) :
          IsArray(OptGet(fieldIn, k)) =>
              IsPrefixCut(fieldOut.o[k], OptGet(fieldIn, k), SubCaps(field)[k])
    /\ (field = "highlights" /\ IsArray(fieldIn) /\ Len(fieldIn.a) = 20) =>
          Len(fieldOut.a) = 6

\* C14 (as stated): every sequence of the normalized result is the prefix of
\* the corresponding input array cut at its cap, in the original order, and an
\* over-long array never causes an error or a fallback; 20 highlights give
\* exactly the first 6, an array under its cap keeps its length.
C14_SequencesArePrefixes ==
    FieldValidated => TruncationHolds

\* the first cap elements of a top-level array hold no null
NoNullBeforeCap ==
    (field \in DOMAIN TopCaps /\ IsArray(fieldIn)) =>
        \A i \in 1..Min2(TopCaps[field], Len(fieldIn.a)) : fieldIn.a[i] # Null

\* Lemma: apart from a null element before the cap, truncation is as stated.
TruncationHoldsWithoutNull ==
    (FieldValidated /\ NoNullBeforeCap) => TruncationHolds

\* the value v when it is one of the strings of enum, else the default
Coerced(v, enum, default) == IF v \in {Str(e) : e \in enum} THEN v ELSE Str(default)

\* C15: an enumerated value outside its enumeration (absent, not a string, or
\* an unknown string) is coerced, never rejected: decision to "maybe", level
\* to "mid", clarity to "good", improvement priority to "medium"; a value
\* inside the enumeration is returned unchanged; "super_hire" gives "maybe".
C15_EnumsAreCoerced ==
    FieldValidated =>
        /\ field = "overall_recommendation" =>
              /\ fieldOut # Throw
              /\ fieldOut.o.decision = Coerced(OptGet(fieldIn, "decision"), Decisions, "maybe")
              /\ OptGet(fieldIn, "decision") = Str("super_hire") => fieldOut.o.decision = Str("maybe")
        /\ field = "technical_assessment" =>
              /\ fieldOut # Throw
              /\ fieldOut.o.level = Coerced(OptGet(fieldIn, "level"), TechLevels, "mid")
        /\ field = "communication_analysis" =>
              /\ fieldOut # Throw
              /\ fieldOut.o.clarity = Coerced(OptGet(fieldIn, "clarity"), Clarities, "good")
        /\ (field = "improvements" /\ fieldOut # Throw) =>
              \A i \in 1..Len(fieldOut.a) :
                  fieldOut.a[i].o.priority = Coerced(Get(fieldIn.a[i], "priority"), Priorities, "medium")

C15_Witness ==
    /\ phase = "validated"
    /\ field = "overall_recommendation"
    /\ fieldIn = One("decision", Str("super_hire"))
    /\ fieldOut.o.decision = Str("maybe")

\* max(1, min(10, c)) written out by cases, in hundredths
Clamped(c) == IF c < Whole(1) THEN Whole(1) ELSE IF c > Whole(10) THEN Whole(10) ELSE c

\* C16: for a numeric confidence c the normalized overall confidence is
\* max(1, min(10, c)) (15 gives 10, -3 gives 1, a value in [1,10] is kept);
\* for an absent or non-numeric one it is 7; it is always within [1,10].
C16_ConfidenceIsClamped ==
    (FieldValidated /\ field = "overall_recommendation") =>
        LET c == OptGet(fieldIn, "confidence")
            out == fieldOut.o.confidence
        IN /\ out.t = "num"
           /\ out.n >= Whole(1)
           /\ out.n <= Whole(10)
           /\ c.t = "num" => out.n = Clamped(c.n)
           /\ c.t # "num" => out.n = Whole(7)
           /\ c = Num(Whole(15)) => out = Num(Whole(10))
           /\ c = Num(Whole(0 - 3)) => out = Num(Whole(1))

C16_Witness ==
    /\ phase = "validated"
    /\ field = "overall_recommendation"
    /\ fieldIn = One("confidence", Num(Whole(15)))
    /\ fieldOut.o.confidence = Num(Whole(10))

DifferentPrefix(a, b) == a # <<>> /\ b # <<>> /\ a[1] # b[1]

\* C18 (as stated): the fallback analysis returned for an unparsable reply
\* embeds a prefix of the raw reply text, so two unparsable replies with
\* different prefixes give different fallback objects.
C18_FallbackDependsOnRawPrefix ==
    OnFailurePath =>
        \A other \in BrokenTexts :
            (JSONparse(JsonTextOf(other)) = Throw /\ DifferentPrefix(raw, other)) =>
                parseAndValidateResponse(other, transcript) # parsedOut

(***************************************************************************)
(* Fenced replies                                                          *)
(***************************************************************************)
\* both normalizers give for the reply what they give for the text j alone
SameAsBare(j) ==
    /\ parsedOut = parseAndValidateResponse(j, transcript)
    /\ parsedOutRV = RV_parseAndValidateResponse(j, transcript)

\* a reply without any fence is processed as its trimmed whole text
UnfencedIsTrimmed ==
    ~IncludesFence(raw) =>
        /\ ExtractFenced(raw) = Trim(raw)
        /\ parsedOutRV = CatchFallback(Validated(JSONparse(Trim(raw))), transcript, raw)
        /\ parsedOut = parseAndValidateResponse(Trim(raw), transcript)

\* C19 (as stated): for every valid JSON object text J, normalizing J wrapped
\* in a triple-backtick fence (with or without the json tag) returns the same
\* object as normalizing J alone; a reply without any fence is processed as
\* its trimmed whole text.
C19_FencedSameAsBare ==
    phase = "parsed" =>
        /\ \A j \in JsonObjectTexts : raw \in Fenced(j) => SameAsBare(j)
        /\ UnfencedIsTrimmed

\* C19 (amended): the same for every valid JSON object text J that holds no
\* triple back-tick itself; when a string value of J holds one, the brace
\* match of response-parser.js still gives the same object for both.
C19_FencedSameAsBareWithoutBackticks ==
    phase = "parsed" =>
        /\ \A j \in JsonObjectTexts :
              raw \in Fenced(j) =>
                  /\ ~IncludesFence(j) => SameAsBare(j)
                  /\ parsedOut = parseAndValidateResponse(j, transcript)
        /\ UnfencedIsTrimmed

\* a well-formed analysis inside a json-tagged fence was normalized by both
\* normalizers to the analysis itself
C19_Witness ==
    /\ phase = "parsed"
    /\ raw = <<TFence, TJsonTag, TWs>> \o Stringify(GoodAnalysis) \o <<TWs, TFence>>
    /\ SameAsBare(Stringify(GoodAnalysis))
    /\ parsedOutRV = parsedOut
    /\ parsedOut.o.overall_recommendation.o.decision = Str("strong_hire")

(***************************************************************************)
(* HTTP layer                                                              *)
(***************************************************************************)
\* C20 (as stated): POST /api/analyze with a transcript that is missing,
\* empty or shorter than the 50-character threshold answers with a 4xx
\* status; a 5xx status is never the answer to a too-short transcript.
C20_TooShortAnswers4xx ==
    (httpStatus # 0 /\ InputTooShort(transcript)) =>
        (httpStatus >= 400 /\ httpStatus <= 499)

\* Lemma: a missing or empty transcript is answered 400 without calling
\* analyzeTranscript, an accepted transcript is answered 200.
MissingIs400AcceptedIs200 ==
    httpStatus # 0 =>
        /\ TranscriptMissing(transcript) => (httpStatus = 400 /\ pc = "idle")
        /\ ~InputTooShort(transcript) => httpStatus = 200

(***************************************************************************)
(* Result metadata                                                         *)
(***************************************************************************)
\* the last attempt of the call ended with a reply text that was normalized
LastAttemptProduced ==
    /\ outcomes # <<>>
    /\ outcomes[Len(outcomes)].kind = "content"
    /\ ~NoUsableContent(outcomes[Len(outcomes)])

\* C21: a result produced by an upstream attempt (validated or fallback
\* analysis) carries attempt_number = the 1-based index of that attempt = the
\* number of upstream requests of the call, and no demo_mode; a result of the
\* offline-demo generator carries demo_mode = true and no attempt_number.
C21_MetadataTellsOutcomesApart ==
    pc = "returned" =>
        LET md == result.o.metadata.o
        IN IF LastAttemptProduced
           THEN /\ "attempt_number" \in DOMAIN md
                /\ md.attempt_number = Num(Whole(Len(outcomes)))
                /\ requests = Len(outcomes)
                /\ "demo_mode" \notin DOMAIN md
                /\ result # getDemoAnalysis(transcript)
           ELSE /\ "demo_mode" \in DOMAIN md
                /\ md.demo_mode = Bool(TRUE)
                /\ "attempt_number" \notin DOMAIN md
                /\ result = getDemoAnalysis(transcript)

\* the second attempt produced the result, and the metadata says 2
C21_Witness ==
    /\ pc = "returned"
    /\ Len(outcomes) = 2
    /\ outcomes[1].kind = "conn_error"
    /\ outcomes[2].kind = "content"
    /\ requests = 2
    /\ result.o.metadata.o.attempt_number = Num(Whole(2))
    /\ "demo_mode" \notin DOMAIN result.o.metadata.o

(***************************************************************************)
(* Greedy brace match of response-parser.js                                *)
(***************************************************************************)
\* the object text j alone, as the try block would normalize it
NormalizedAlone(j) == CatchFallback(Validated(JSONparse(j)), transcript, j)

\* C22: response-parser.js parses the substring from the first "{" to the
\* last "}": a valid JSON object inside brace-free prose is normalized as
\* that object alone; a valid JSON object followed by text holding "}" or by
\* a second JSON object gives the fallback analysis, not the first object.
C22_GreedyBraceMatch ==
    phase = "parsed" =>
        \A j \in JsonObjectTexts :
            /\ raw = <<TTxt("Here"), TWs>> \o j \o <<TWs, TTxt("Thanks")>> =>
                  parsedOut = NormalizedAlone(j)
            /\ raw \in {j \o <<TWs>> \o j, j \o <<TWs, TTxt("done"), P("}")>>} =>
                  /\ MatchBraces(raw).found
                  /\ MatchBraces(raw).text = raw
                  /\ parsedOut = createFallbackAnalysis(transcript, raw)

\* two copies of a well-formed analysis in one reply end in the fallback
C22_Witness ==
    /\ phase = "parsed"
    /\ raw = Stringify(GoodAnalysis) \o <<TWs>> \o Stringify(GoodAnalysis)
    /\ NormalizedAlone(Stringify(GoodAnalysis)) = Validated(GoodAnalysis)
    /\ parsedOut = createFallbackAnalysis(transcript, raw)
    /\ parsedOut # Validated(GoodAnalysis)

\* transcribeAudio has returned
Transcribed == apc \in {"transcribed", "analyzing", "done"} /\ txResult # NoResult

\* the key is not configured, or the direct call and the SDK call both failed
MockFallbackCase ==
    getOpenAIClient(openaiKey) = Null \/ (transcription = Null /\ sdkResult = Null)

\* C23: when the OpenAI key is absent or the placeholder, or the upstream
\* fails, POST /api/transcribe with an accepted file gets the mock from
\* transcribeAudio and answers 200 with success = true and an empty
\* transcript.
C23_MockFallbackAnswers200 ==
    (route = "transcribe" /\ upload = "accepted" /\ apc = "done" /\ MockFallbackCase)
        => /\ txResult = getMockTranscription
           /\ httpStatus = 200
           /\ httpBody.success = TRUE
           /\ httpBody.transcript = EmptyText

\* the mock is what transcribeAudio returns in the fallback case
MockIsReturnedInFallbackCase ==
    (Transcribed /\ MockFallbackCase) => txResult = getMockTranscription

\* C25: when the direct call fails and the SDK call succeeds, transcribeAudio
\* returns the SDK result's text and segments with model whisper-1; the mock
\* is returned only when both calls fail.
C25_SdkResultIsReturned ==
    (Transcribed /\ getOpenAIClient(openaiKey) # Null)
        => /\ (transcription = Null /\ sdkResult # Null)
                 => txResult = TranscriptionResult(sdkResult)
           /\ txResult = getMockTranscription
                 => (transcription = Null /\ sdkResult = Null)

\* C30: POST /api/complete answers 200 with success = true, the transcription
\* and an analysis with the eight keys whenever transcribeAudio reported
\* success, the mock included.
C30_CompleteAnswers200AfterTranscription ==
    (route = "complete" /\ apc = "done" /\ txResult # NoResult /\ txResult.success)
        => /\ httpStatus = 200
           /\ httpBody.success = TRUE
           /\ httpBody.transcription = txResult.transcription
           /\ HasEightKeys(httpBody.analysis)

\* the reply is missing, or its outermost braces hold no valid JSON
FollowupUnparsable ==
    \/ aiResponse.t \in {"undef", "null"}
    \/ LET jsonMatch == MatchBraces(JoinLines(aiResponse.lines))
       IN jsonMatch.found /\ JSONparse(jsonMatch.text) = Throw

\* the reply holds braces
FollowupJsonPath ==
    aiResponse.t = "lines" /\ MatchBraces(JoinLines(aiResponse.lines)).found

\* C24: parseFollowupResponse returns a list of at most 3 suggestions for
\* every reply, on the JSON path and on the line-by-line path, and the empty
\* list when the reply is missing or cannot be parsed.
C24_AtMostThreeSuggestions ==
    suggestions # NoResult =>
        /\ IsArray(suggestions)
        /\ Len(suggestions.a) <= FOLLOWUP_LIMIT
        /\ FollowupUnparsable => suggestions = Arr(<<>>)

\* the line-by-line path and the unparsable replies behave as C24 says
LinePathAtMostThree ==
    (suggestions # NoResult /\ ~FollowupJsonPath) =>
        /\ IsArray(suggestions)
        /\ Len(suggestions.a) <= FOLLOWUP_LIMIT

UnparsableGivesEmptyList ==
    (suggestions # NoResult /\ FollowupUnparsable) => suggestions = Arr(<<>>)

\* four questions of a list are cut to three
LinePathCuts ==
    /\ suggestions # NoResult
    /\ ~FollowupJsonPath
    /\ Len(suggestions.a) = FOLLOWUP_LIMIT
    /\ Len(aiResponse.lines) > FOLLOWUP_LIMIT

\* C26: for every raw reply text the two normalizers return equal objects and
\* take the fallback branch on the same inputs.
C26_NormalizersEquivalent ==
    phase = "parsed" =>
        /\ parsedOut = parsedOutRV
        /\ IsFallbackAnalysis(parsedOut) <=> IsFallbackAnalysis(parsedOutRV)

\* the reply is an object text free of back-ticks, bare (with white space
\* around it at most) or inside a fenced block
BareOrFenced ==
    \E j \in JsonObjectTexts :
        /\ \A i \in 1..Len(j) : j[i] # TFence
        /\ raw \in {j, <<TWs>> \o j \o <<TWs>>} \cup Fenced(j)

\* on bare and fenced object texts the two normalizers agree
NormalizersAgreeOnBareAndFenced ==
    (phase = "parsed" /\ BareOrFenced) => parsedOut = parsedOutRV

\* a timer set before the last handleBackToWelcome changes the page
StaleTimerChangesPage ==
    \E i \in 1..Len(uiTimers) :
        /\ uiTimers[i].stale
        /\ TimerFire(i)
        /\ currentPage' # currentPage

\* C27: whenever the current page is chatPage both selectedMentor and
\* selectedInterviewType are non-null, and no timer scheduled before a
\* back-to-welcome reset changes the page after it.
C27_ChatPageHasSelections ==
    /\ [](currentPage = "chatPage" => (selectedMentor # Null /\ selectedInterviewType # Null))
    /\ [][~StaleTimerChangesPage]_vars

\* the chat page shown with no mentor and no interview type selected
ChatPageWithoutSelections ==
    currentPage = "chatPage" /\ selectedMentor = Null /\ selectedInterviewType = Null

\* the response to a request sent before the last handleBackToWelcome arrives
\* and enables follow-ups, sets the context or shows the modal
StaleResponseActs ==
    \E i \in 1..Len(uiRequests), ok \in BOOLEAN :
        /\ uiRequests[i].stale
        /\ AnalyzeResponse(i, ok) \/ FollowupResponse(i, ok)
        /\ \/ followupEnabled' # followupEnabled
           \/ lastConversationContext' # lastConversationContext
           \/ modalDisplay' # modalDisplay

\* C28: after FollowupManager.reset() the completion of a request that was in
\* flight at the reset neither re-enables follow-ups, nor sets the context,
\* nor shows the modal.
C28_ResetOutlivesPendingRequests == [][~StaleResponseActs]_vars

RECURSIVE JoinWithSpaces(_)
\* the texts joined by single spaces
JoinWithSpaces(texts) ==
    IF texts = <<>> THEN <<>>
    ELSE IF Len(texts) = 1 THEN texts[1]
    ELSE texts[1] \o <<Sp>> \o JoinWithSpaces(Tail(texts))

\* C29: for every non-empty list of segments the timeline is non-empty and
\* no longer than the list, no two consecutive entries have the same section,
\* every entry but the last ends where the next one starts, the last entry has
\* no end, and the trimmed texts of the segments appear once each, in order,
\* in the contents.
C29_TimelineShape ==
    timeline # NoResult =>
        LET tl == timeline.a
            n == Len(tl)
        IN /\ n >= 1
           /\ n <= Len(segments)
           /\ \A i \in 1..(n - 1) :
                 /\ tl[i].section # tl[i + 1].section
                 /\ "end" \in DOMAIN tl[i]
                 /\ tl[i].end = tl[i + 1].start
           /\ "end" \notin DOMAIN tl[n]
           /\ JoinWithSpaces([i \in 1..n |-> tl[i].content])
                = JoinWithSpaces([i \in 1..Len(segments) |-> TrimText(segments[i].text)])

\* three segments, the last two of one section, give two entries
C29_Witness ==
    /\ timeline # NoResult
    /\ Len(segments) = 3
    /\ Len(timeline.a) = 2
    /\ timeline.a[1].section = "introduction"
    /\ timeline.a[1].end = formatTimestamp(61)
    /\ timeline.a[2].content = <<"a", Sp, "problem", Sp, "a", Sp, "problem">>

=============================================================================
